---- MODULE Spec2Model ----
(***************************************************************************)
(* A model of the Agent RAG MCP server (src/src/agent_rag_mcp/server):     *)
(* the request parser, the Experience Store wrapper, the startup sequence  *)
(* (lifespan) and the tool operations of server/main.py, the file-search   *)
(* client of server/gemini.py, the store name derivations, the auth        *)
(* provider and the configuration cache of config.py.                      *)
(***************************************************************************)
EXTENDS Integers, Sequences, FiniteSets, TLC

(***************************************************************************)
(* Python values.  Every value is a record [k, s, m]:                      *)
(*   k  the Python type: "none", "bool", "int", "float", "str", "dict";    *)
(*   s  the canonical text of a scalar (for a str, its characters when the *)
(*      string is a single word);                                          *)
(*   m  for a dict, its items [key, val] in insertion order (a key is a    *)
(*      scalar value); for a str that holds a structured text (a JSON      *)
(*      document), its tokens.                                             *)
(***************************************************************************)
PNone == [k |-> "none", s |-> "", m |-> <<>>]
PStr(x) == [k |-> "str", s |-> x, m |-> <<>>]
PText(toks) == [k |-> "str", s |-> "", m |-> toks]
PInt(x) == [k |-> "int", s |-> x, m |-> <<>>]
PFloat(x) == [k |-> "float", s |-> x, m |-> <<>>]
PBool(x) == [k |-> "bool", s |-> x, m |-> <<>>]
PDict(items) == [k |-> "dict", s |-> "", m |-> items]
EmptyDict == PDict(<<>>)
\* one item of a dict literal whose key is the str `word`
KV(word, val) == [key |-> PStr(word), val |-> val]

IsDict(v) == v.k = "dict"

\* a == b on two scalars (and the hash/== of two dict keys): equal values of
\* one type, and equal numbers across bool, int and float.  Of the numbers
\* of the model only 0 and 1 are written in more than one type.
Zeros == {PBool("False"), PInt("0"), PFloat("0.0")}
Ones == {PBool("True"), PInt("1"), PFloat("1.0")}
KeyEq(a, b) ==
    \/ a = b
    \/ /\ a.k \in {"bool", "int", "float"}
       /\ b.k \in {"bool", "int", "float"}
       /\ (a \in Zeros /\ b \in Zeros) \/ (a \in Ones /\ b \in Ones)
\* the position of a key among the items of a dict, 0 when absent
KeyIndex(items, key) ==
    IF \E i \in 1..Len(items) : KeyEq(items[i].key, key)
    THEN CHOOSE i \in 1..Len(items) : KeyEq(items[i].key, key)
    ELSE 0

\* dict.get(key, default) with a str key, on a value known to be a dict
DictGet(v, key, default) ==
    LET i == KeyIndex(v.m, PStr(key)) IN IF i = 0 THEN default ELSE v.m[i].val

\* d[key] = val on the items of a dict: a key already present keeps its
\* place (and its first spelling) and takes the new value; a new key goes last
DictPut(items, key, val) ==
    LET i == KeyIndex(items, key) IN
    IF i = 0 THEN Append(items, [key |-> key, val |-> val])
    ELSE [items EXCEPT ![i].val = val]

RECURSIVE PyEq(_, _)
\* a == b on two values: dicts are equal when they hold the same items,
\* in any order; scalars as their keys are
PyEq(a, b) ==
    IF a.k = "dict" /\ b.k = "dict"
    THEN /\ Len(a.m) = Len(b.m)
         /\ \A i \in 1..Len(a.m) :
               LET j == KeyIndex(b.m, a.m[i].key) IN
               j # 0 /\ PyEq(a.m[i].val, b.m[j].val)
    ELSE KeyEq(a, b)

\* Python truthiness, as used by `if exp.get(...).get("success")`
Truthy(v) ==
    CASE v.k = "none" -> FALSE
      [] v.k = "bool" -> v.s = "True"
      [] v.k = "int" -> v.s # "0"
      [] v.k = "float" -> v.s # "0.0"
      [] v.k = "str" -> ~(v.s = "" /\ v.m = <<>>)
      [] OTHER -> v.m # <<>>

(***************************************************************************)
(* Texts.  A text (a Python str holding a document) is a sequence of       *)
(* tokens [t, s, m]:                                                       *)
(*   "{" "}" ":" ","   the flow indicators YAML and JSON share;            *)
(*   "in" "out" "nl"   a line end followed by a deeper indentation level,  *)
(*                     the end of a level, a line end;                     *)
(*   "?"               the indicator of a complex mapping key of YAML, in  *)
(*                     a block or between "{" and "}";                     *)
(*   "sub"             a deeper indentation level opened on the line of    *)
(*                     the ":" that follows a complex key;                 *)
(*   "end"             the document end marker yaml.dump writes after a    *)
(*                     plain scalar document;                              *)
(*   "plain"           an unquoted word s;                                 *)
(*   "dq" / "sq"       a double- / single-quoted string with content s, or *)
(*                     with the text m as content.                         *)
(* A text need not close its last line: the end of the text ends the line  *)
(* and every open indentation level.  An empty line is a "nl" of its own.  *)
(* Between "{" and "}" the indentation of a line means nothing to either   *)
(* parser: a line end there is a "nl", and the "in" and "out" a text has   *)
(* there instead open and close no level (FlowLines).  Every scalar is     *)
(* written on one line.                                                    *)
(***************************************************************************)
Tok(t) == [t |-> t, s |-> "", m |-> <<>>]
Plain(x) == [t |-> "plain", s |-> x, m |-> <<>>]
Quoted(q, v) == [t |-> q, s |-> v.s, m |-> v.m]

\* the characters of a str value, as tokens
Lex(v) == IF v.m # <<>> THEN v.m ELSE IF v.s = "" THEN <<>> ELSE <<Plain(v.s)>>

\* Plain words the scalar resolvers of the two parsers know.
YamlTrue == {"true", "True", "TRUE", "yes", "Yes", "YES", "on", "On", "ON"}
YamlFalse == {"false", "False", "FALSE", "no", "No", "NO", "off", "Off", "OFF"}
YamlNull == {"null", "Null", "NULL", "~"}
IntWords == {"0", "150"}
\* YAML 1.1 floats need a '.' in the mantissa; JSON floats do not
YamlFloatWords == {"1.5", "1.0e+16"}
JsonFloatWords == {"1.5", "1e+16", "1.0e+16"}
FloatCanon(w) == IF w \in {"1e+16", "1.0e+16"} THEN "1e16" ELSE w

\* yaml.safe_load's implicit resolution of a plain scalar
YamlResolve(w) ==
    CASE w \in YamlNull -> PNone
      [] w \in YamlTrue -> PBool("True")
      [] w \in YamlFalse -> PBool("False")
      [] w \in IntWords -> PInt(w)
      [] w \in YamlFloatWords -> PFloat(FloatCanon(w))
      [] OTHER -> PStr(w)

\* json.loads' literals; any other bare word is a JSONDecodeError
JsonIsLiteral(w) == w \in {"true", "false", "null"} \cup IntWords \cup JsonFloatWords
JsonResolve(w) ==
    CASE w = "null" -> PNone
      [] w = "true" -> PBool("True")
      [] w = "false" -> PBool("False")
      [] w \in IntWords -> PInt(w)
      [] OTHER -> PFloat(FloatCanon(w))

\* repr of a float in json.dumps and in yaml.dump
JsonFloatRepr(c) == IF c = "1e16" THEN "1e+16" ELSE c
YamlFloatRepr(c) == IF c = "1e16" THEN "1.0e+16" ELSE c

\* the str json.dumps writes for a dict key: a str as it is, a bool, None
\* or a number as its JSON literal
JsonKey(key) ==
    CASE key.k = "str" -> key
      [] key.k = "none" -> PStr("null")
      [] key.k = "bool" -> PStr(IF key.s = "True" THEN "true" ELSE "false")
      [] key.k = "float" -> PStr(JsonFloatRepr(key.s))
      [] OTHER -> PStr(key.s)

RECURSIVE JsonDumps(_)
RECURSIVE JsonMembers(_)
\* json.dumps(v): the JSON text of a value, a dict's items in their order
JsonDumps(v) ==
    CASE v.k = "none" -> <<Plain("null")>>
      [] v.k = "bool" -> <<Plain(IF v.s = "True" THEN "true" ELSE "false")>>
      [] v.k = "int" -> <<Plain(v.s)>>
      [] v.k = "float" -> <<Plain(JsonFloatRepr(v.s))>>
      [] v.k = "str" -> <<Quoted("dq", v)>>
      [] OTHER -> <<Tok("{")>> \o JsonMembers(v.m) \o <<Tok("}")>>
JsonMembers(items) ==
    IF items = <<>> THEN <<>>
    ELSE <<Quoted("dq", JsonKey(Head(items).key)), Tok(":")>> \o JsonDumps(Head(items).val)
         \o (IF Len(items) > 1 THEN <<Tok(",")>> ELSE <<>>)
         \o JsonMembers(Tail(items))

\* yaml.dump's scalar: a str is quoted when its plain form would not load as that str
YamlScalar(v) ==
    CASE v.k = "none" -> Plain("null")
      [] v.k = "bool" -> Plain(IF v.s = "True" THEN "true" ELSE "false")
      [] v.k = "int" -> Plain(v.s)
      [] v.k = "float" -> Plain(YamlFloatRepr(v.s))
      [] OTHER -> IF v.m = <<>> /\ v.s # "" /\ YamlResolve(v.s) = v
                  THEN Plain(v.s) ELSE Quoted("sq", v)

\* the emitter's check_simple_key: a key is written as `key:` unless its
\* scalar is empty (or runs over lines or 128 characters, which no str of
\* the model does)
IsSimpleKey(key) == ~(key.k = "str" /\ key.s = "" /\ key.m = <<>>)
RECURSIVE YamlBlock(_)
\* yaml.dump(data, allow_unicode=True, sort_keys=False): block style, a
\* dict's items in their order; a key that is not simple is written as
\* `? key` on a line of its own and its value after `: ` on the next
YamlBlock(items) ==
    IF items = <<>> THEN <<>>
    ELSE LET Item(val, simple, key) ==
                 IF val.k = "dict" /\ val.m # <<>>
                 THEN key \o <<Tok(IF simple THEN "in" ELSE "sub")>> \o YamlBlock(val.m)
                          \o <<Tok("out")>>
                 ELSE IF val.k = "dict"
                 THEN key \o <<Tok("{"), Tok("}"), Tok("nl")>>
                 ELSE key \o <<YamlScalar(val), Tok("nl")>>
             Keyed(k) ==
                 Item(Head(items).val, IsSimpleKey(k),
                      IF IsSimpleKey(k) THEN <<YamlScalar(k), Tok(":")>>
                      ELSE <<Tok("?"), YamlScalar(k), Tok("nl"), Tok(":")>>)
         IN  Keyed(Head(items).key) \o YamlBlock(Tail(items))
YamlDump(v) ==
    IF v.k = "dict"
    THEN IF v.m = <<>> THEN <<Tok("{"), Tok("}"), Tok("nl")>>
         ELSE YamlBlock(v.m)
    ELSE IF YamlScalar(v).t = "plain"
    THEN <<YamlScalar(v), Tok("nl"), Tok("end"), Tok("nl")>>
    ELSE <<YamlScalar(v), Tok("nl")>>

(***************************************************************************)
(* The two decoders.  A parse returns [ok, val, rest].                     *)
(***************************************************************************)
Fail == [ok |-> FALSE, val |-> PNone, rest |-> <<>>]
Done(v, r) == [ok |-> TRUE, val |-> v, rest |-> r]

\* line ends and indentation are white space to JSON and inside a YAML flow
IsSpaceTok(x) == x.t \in {"nl", "in", "out"}
RECURSIVE SkipSpace(_)
SkipSpace(toks) ==
    IF toks # <<>> /\ IsSpaceTok(Head(toks)) THEN SkipSpace(Tail(toks)) ELSE toks

RECURSIVE JsonValue(_)
RECURSIVE JsonObject(_, _)
JsonValue(toks) ==
    IF toks = <<>> THEN Fail
    ELSE LET h == Head(toks) IN
         CASE h.t = "dq" -> Done([k |-> "str", s |-> h.s, m |-> h.m], Tail(toks))
           [] h.t = "plain" -> IF JsonIsLiteral(h.s) THEN Done(JsonResolve(h.s), Tail(toks))
                               ELSE Fail
           [] h.t = "{" -> IF Len(toks) >= 2 /\ toks[2].t = "}"
                           THEN Done(EmptyDict, SubSeq(toks, 3, Len(toks)))
                           ELSE JsonObject(Tail(toks), <<>>)
           [] OTHER -> Fail
\* members of an object after "{" or ",": "key" : value ( , | } )
JsonObject(toks, acc) ==
    IF Len(toks) < 4 \/ toks[1].t # "dq" \/ toks[2].t # ":" THEN Fail
    ELSE LET Member(v) ==
                 IF ~v.ok \/ v.rest = <<>> THEN Fail
                 ELSE LET Rest(acc2) ==
                              CASE Head(v.rest).t = "}" -> Done(PDict(acc2), Tail(v.rest))
                                [] Head(v.rest).t = "," -> JsonObject(Tail(v.rest), acc2)
                                [] OTHER -> Fail
                      IN  Rest(DictPut(acc, [k |-> "str", s |-> toks[1].s,
                                             m |-> toks[1].m], v.val))
         IN  Member(JsonValue(SubSeq(toks, 3, Len(toks))))
\* json.loads(text): the whole text must be one value; line ends are white space
JsonLoads(text) ==
    LET Whole(r) == IF r.ok /\ r.rest = <<>> THEN r ELSE Fail
    IN  Whole(JsonValue(SelectSeq(text, LAMBDA x : ~IsSpaceTok(x))))

RECURSIVE SkipLines(_)
\* the tokens after the empty lines they start with
SkipLines(toks) ==
    IF toks # <<>> /\ Head(toks).t = "nl" THEN SkipLines(Tail(toks)) ELSE toks
\* the level a line token opens (1) or closes (-1)
LevelOf(x) == IF x.t = "in" THEN 1 ELSE IF x.t = "out" THEN -1 ELSE 0
RECURSIVE LeadingOuts(_)
\* how many "out" tokens the tokens start with
LeadingOuts(toks) ==
    IF toks # <<>> /\ Head(toks).t = "out" THEN 1 + LeadingOuts(Tail(toks)) ELSE 0
RECURSIVE FlowLines(_, _, _)
\* the text as the scanner of PyYAML sees its lines: between "{" and "}"
\* (depth > 0) a line end is a line end ("nl") whatever the indentation of
\* the next line, so the levels such lines open and close (bal) are no
\* levels of a block; they are settled at the first line end after the "}"
FlowLines(toks, depth, bal) ==
    IF toks = <<>> THEN <<>>
    ELSE LET h == Head(toks)
             r == Tail(toks)
             Settled(rest, net) ==
                 (IF net > 0 THEN [i \in 1..net |-> Tok("in")]
                  ELSE <<Tok("nl")>> \o [i \in 1..(0 - net) |-> Tok("out")])
                 \o FlowLines(rest, 0, 0)
             Closed(lines, k) == Settled(SubSeq(lines, k + 1, Len(lines)), bal - k)
             Lines(lines) == Closed(lines, LeadingOuts(lines))
         IN  CASE h.t = "{" -> <<h>> \o FlowLines(r, depth + 1, bal)
               [] h.t = "}" /\ depth > 0 -> <<h>> \o FlowLines(r, depth - 1, bal)
               [] IsSpaceTok(h) /\ depth > 0 ->
                    <<Tok("nl")>> \o FlowLines(r, depth, bal + LevelOf(h))
               [] h.t = "nl" /\ depth = 0 /\ bal # 0 -> Lines(SkipLines(r))
               [] h.t \in {"in", "out"} /\ depth = 0 /\ bal # 0 ->
                    Settled(r, bal + LevelOf(h))
               [] OTHER -> <<h>> \o FlowLines(r, depth, bal)

IsScalarTok(x) == x.t \in {"plain", "dq", "sq"}
YamlScalarValue(x) ==
    IF x.t = "plain" THEN YamlResolve(x.s) ELSE [k |-> "str", s |-> x.s, m |-> x.m]
\* a mapping key is constructed as any scalar node is: a plain key resolves
\* to None, a bool, an int or a float when it is written as one
YamlKey(x) == YamlScalarValue(x)

\* the tokens open an entry of a block mapping: `key:` or `? key`
StartsBlockEntry(toks) ==
    \/ toks # <<>> /\ toks[1].t = "?"
    \/ Len(toks) >= 2 /\ IsScalarTok(toks[1]) /\ toks[2].t = ":"
RECURSIVE YamlFlow(_)
RECURSIVE YamlFlowMap(_, _)
RECURSIVE YamlBlockMap(_, _)
RECURSIVE YamlIndented(_)
\* a flow node: a scalar or a { } mapping
YamlFlow(toks) ==
    IF toks = <<>> THEN Fail
    ELSE IF IsScalarTok(Head(toks)) THEN Done(YamlScalarValue(Head(toks)), Tail(toks))
    ELSE IF Head(toks).t = "{" THEN YamlFlowMap(SkipSpace(Tail(toks)), <<>>)
    ELSE Fail
\* after an entry of a flow mapping: "}" closes the mapping acc2, "," goes on
FlowEntryEnd(acc2, r3) ==
    IF r3 = <<>> THEN Fail
    ELSE IF Head(r3).t = "}" THEN Done(PDict(acc2), Tail(r3))
    ELSE IF Head(r3).t = "," THEN YamlFlowMap(SkipSpace(Tail(r3)), acc2)
    ELSE Fail
\* the entry key: v of a flow mapping, v being the value as read
FlowEntry(acc, key, v) ==
    IF ~v.ok THEN Fail ELSE FlowEntryEnd(DictPut(acc, key, v.val), SkipSpace(v.rest))
\* the value of key: the flow node r2 after a ":", or None when there is no
\* ":" or nothing but "," or "}" after it
FlowValue(acc, key, colon, r2) ==
    FlowEntry(acc, key,
              IF ~colon \/ (r2 # <<>> /\ Head(r2).t \in {",", "}"}) THEN Done(PNone, r2)
              ELSE YamlFlow(r2))
\* the key and the tokens r1 after it
FlowKey(acc, key, r1) ==
    FlowValue(acc, key, r1 # <<>> /\ Head(r1).t = ":",
              IF r1 # <<>> /\ Head(r1).t = ":" THEN SkipSpace(Tail(r1)) ELSE r1)
\* the tokens t1 of an entry from its key on; a missing key is None
FlowKeyed(acc, t1) ==
    FlowKey(acc,
            IF t1 # <<>> /\ IsScalarTok(Head(t1)) THEN YamlKey(Head(t1)) ELSE PNone,
            IF t1 # <<>> /\ IsScalarTok(Head(t1)) THEN SkipSpace(Tail(t1)) ELSE t1)
\* a key written without "?" and the ":" after it are on different lines:
\* the scanner forgets such a key at the end of its line
\* (stale_possible_simple_keys), and the ":" that comes is no entry
StaleSimpleKey(toks) ==
    /\ Len(toks) >= 2
    /\ IsScalarTok(toks[1])
    /\ IsSpaceTok(toks[2])
    /\ SkipSpace(Tail(toks)) # <<>>
    /\ Head(SkipSpace(Tail(toks))).t = ":"
\* the entries of a flow mapping after "{" or ",": the closing "}" (also
\* right after a ","), or [ ? ] key [ : [ value ] ] followed by "," or "}";
\* after a "?" the key may be missing too, and only after a "?" may a line
\* end between the key and its ":".  A missing key or value is None, a key
\* that is a mapping is unhashable
YamlFlowMap(toks, acc) ==
    IF toks = <<>> THEN Fail
    ELSE IF Head(toks).t = "}" THEN Done(PDict(acc), Tail(toks))
    ELSE IF Head(toks).t # "?" /\ ~IsScalarTok(Head(toks)) THEN Fail
    ELSE IF StaleSimpleKey(toks) THEN Fail
    ELSE FlowKeyed(acc, IF Head(toks).t = "?" THEN SkipSpace(Tail(toks)) ELSE toks)
\* the one flow node v of a deeper level ends with its line
IndentedLine(v) ==
    IF ~v.ok THEN Fail
    ELSE IF v.rest = <<>> THEN v
    ELSE IF Head(v.rest).t = "nl" THEN Done(v.val, SkipLines(v.rest))
    ELSE Fail
\* the node on the lines of a deeper indentation level: a block mapping, or
\* one flow node on a line of its own
YamlIndented(toks) ==
    IF StartsBlockEntry(toks)
    THEN YamlBlockMap(toks, <<>>)
    ELSE IndentedLine(YamlFlow(toks))
\* the key of a block mapping entry as read: the tokens after it (after its
\* ":" when colon), and the token that closes an entry without a value ("nl",
\* or "" when the key was read up to the start of a line)
BlockKey(key, rest, complex, closing) ==
    [ok |-> TRUE, key |-> key, rest |-> rest, colon |-> ~complex,
     complex |-> complex, closing |-> closing]
NoBlockKey == [BlockKey(PNone, <<>>, TRUE, "") EXCEPT !.ok = FALSE]
\* after an entry of a block mapping, read up to a `closing` token: the end
\* of the text, or the entries that follow
BlockEntryEnd(acc2, rest, closing) ==
    IF rest = <<>> THEN Done(PDict(acc2), <<>>)
    ELSE IF closing # "" /\ Head(rest).t # closing THEN Fail
    ELSE YamlBlockMap(IF closing = "" THEN rest ELSE Tail(rest), acc2)
\* the entry key: v of a block mapping
BlockEntry(acc, key, v, closing) ==
    IF ~v.ok THEN Fail ELSE BlockEntryEnd(DictPut(acc, key, v.val), v.rest, closing)
\* after the ":" of the key k, and the empty lines that follow it, come the
\* lines of a deeper level
IsDeeperValue(k, lines) ==
    /\ k.colon
    /\ lines # <<>>
    /\ \/ Head(lines).t = "in"
       \/ Head(lines).t = "sub" /\ k.complex /\ lines = k.rest
\* the value of the key k, `lines` being the tokens after k and the empty
\* lines that follow: after a ":" the node of a deeper level, a flow node on
\* the line, or none; none without a ":"
BlockValue(acc, k, lines) ==
    IF ~k.ok THEN Fail
    ELSE BlockEntry(acc, k.key,
                    IF IsDeeperValue(k, lines) THEN YamlIndented(Tail(lines))
                    ELSE IF ~k.colon \/ k.rest = <<>> \/ Head(k.rest).t = "nl"
                    THEN Done(PNone, k.rest)
                    ELSE YamlFlow(k.rest),
                    IF IsDeeperValue(k, lines) THEN "out"
                    ELSE IF k.colon THEN "nl" ELSE k.closing)
\* after the key of a "?" come the end of the text, or the end of the line
\* and then, after `lines`, `: value` or the next entry
BlockColon(k, lines) ==
    IF k.ok /\ lines # <<>> /\ Head(lines).t = ":"
    THEN [k EXCEPT !.rest = Tail(lines), !.colon = TRUE]
    ELSE k
\* the scalar that opens the lines n of a deeper level is a key when the
\* level closes at `rest`, the tokens after its line
DeeperKeyClosed(n, rest) ==
    IF rest = <<>> THEN BlockKey(YamlKey(Head(n)), <<>>, TRUE, "")
    ELSE IF Head(rest).t = "out" THEN BlockKey(YamlKey(Head(n)), Tail(rest), TRUE, "")
    ELSE NoBlockKey
\* the key on the lines n of a deeper level: one scalar on a line of its own
\* (any other node there is a mapping)
DeeperKey(n) ==
    IF n = <<>> \/ ~IsScalarTok(Head(n)) THEN NoBlockKey
    ELSE IF Len(n) >= 2 /\ n[2].t # "nl" THEN NoBlockKey
    ELSE DeeperKeyClosed(n, SkipLines(Tail(n)))
\* the tokens r after a "?": a key on the line, the lines of a deeper level
\* (`lines` being r after its empty lines), or no key
ComplexKey(r, lines) ==
    IF r # <<>> /\ IsScalarTok(Head(r))
    THEN IF Len(r) >= 2 /\ r[2].t # "nl" THEN NoBlockKey
         ELSE BlockKey(YamlKey(Head(r)), Tail(r), TRUE, "nl")
    ELSE IF lines # <<>> /\ Head(lines).t = "in"
    THEN DeeperKey(Tail(lines))
    ELSE IF r = <<>> \/ Head(r).t = "nl" THEN BlockKey(PNone, r, TRUE, "nl")
    ELSE NoBlockKey
\* the entry that follows the key k
BlockKeyed(acc, k) == BlockValue(acc, k, SkipLines(k.rest))
\* the entries of a block mapping from the first line that is not empty
BlockEntries(first, acc) ==
    IF first = <<>> \/ Head(first).t \in {"out", "end"} THEN Done(PDict(acc), first)
    ELSE IF ~StartsBlockEntry(first) THEN Fail
    ELSE IF Head(first).t # "?"
    THEN BlockKeyed(acc, BlockKey(YamlKey(first[1]), SubSeq(first, 3, Len(first)),
                                  FALSE, "nl"))
    ELSE BlockKeyed(acc, BlockColon(ComplexKey(Tail(first), SkipLines(Tail(first))),
                                    SkipLines(ComplexKey(Tail(first),
                                                         SkipLines(Tail(first))).rest)))
\* the entries of a block mapping, up to the end of its indentation level,
\* of the document or of the text; empty lines between entries, and before
\* the lines of a deeper level, are skipped.
\* An entry is `key: value`, or `? key` followed on a later line by
\* `: value` or by nothing; the key after a "?" may also stand on the lines
\* of a deeper level.  A missing key or value is None, and a key that is a
\* mapping is unhashable.
YamlBlockMap(toks, acc) == BlockEntries(SkipLines(toks), acc)
\* what may follow the one node of a document: line ends and end markers
IsDocumentEnd(rest) == \A i \in 1..Len(rest) : rest[i].t \in {"nl", "end"}
\* the one node r of a document is all the document holds
WholeDocument(r) == IF r.ok /\ IsDocumentEnd(r.rest) THEN Done(r.val, <<>>) ELSE Fail
\* an empty document is None; a document that opens with `key:` is a block
\* mapping; anything else is one flow node
YamlDocument(doc) ==
    IF doc = <<>> THEN Done(PNone, <<>>)
    ELSE WholeDocument(IF StartsBlockEntry(doc) THEN YamlBlockMap(doc, <<>>)
                       ELSE YamlFlow(doc))
\* yaml.safe_load(text)
YamlLoad(text) == YamlDocument(SkipLines(FlowLines(text, 0, 0)))

\* _parse_code_request(request_data) with the decoders it ran, in order:
\* [data, attempts].  data is a dict, or whatever the JSON attempts left.
ParseWithAttempts(text) ==
    LET Second(j, j2) ==
            [data |-> IF j2.ok THEN j2.val ELSE j.val,
             attempts |-> <<"yaml", "json", "json">>]
        First(j) ==
            IF ~j.ok THEN [data |-> PNone, attempts |-> <<"yaml", "json">>]
            ELSE IF j.val.k = "str" THEN Second(j, JsonLoads(Lex(j.val)))
            ELSE [data |-> j.val, attempts |-> <<"yaml", "json">>]
        Yaml(y) ==
            IF y.ok /\ IsDict(y.val) THEN [data |-> y.val, attempts |-> <<"yaml">>]
            ELSE First(JsonLoads(text))
    IN  Yaml(YamlLoad(text))
\* _parse_code_request(request_data)
ParseCodeRequest(text) == ParseWithAttempts(text).data

(***************************************************************************)
(* Character strings (the configured URL, path and store name, and the     *)
(* display names derived from them) are sequences of one-character         *)
(* strings.                                                                *)
(***************************************************************************)
Str_git == <<".", "g", "i", "t">>
Str_gitat == <<"g", "i", "t", "@">>
Str_unknown_repo == <<"u", "n", "k", "n", "o", "w", "n", "-", "r", "e", "p", "o">>
Str_local_docs == <<"l", "o", "c", "a", "l", "-", "d", "o", "c", "s">>
Str_docs == <<"d", "o", "c", "s">>
Str_doc == <<"d", "o", "c">>
Str_documentation == <<"d", "o", "c", "u", "m", "e", "n", "t", "a", "t", "i", "o", "n">>
Str_wiki == <<"w", "i", "k", "i">>

LowerLetters == {"a", "b", "c", "d", "e", "f", "g", "h", "i", "j", "k", "l", "m",
                 "n", "o", "p", "q", "r", "s", "t", "u", "v", "w", "x", "y", "z"}
UpperLetters == {"A", "B", "C", "D", "E", "F", "G", "H", "I", "J", "K", "L", "M",
                 "N", "O", "P", "Q", "R", "S", "T", "U", "V", "W", "X", "Y", "Z"}
Digits == {"0", "1", "2", "3", "4", "5", "6", "7", "8", "9"}
UpperToLower == [A |-> "a", B |-> "b", C |-> "c", D |-> "d", E |-> "e", F |-> "f",
                 G |-> "g", H |-> "h", I |-> "i", J |-> "j", K |-> "k", L |-> "l",
                 M |-> "m", N |-> "n", O |-> "o", P |-> "p", Q |-> "q", R |-> "r",
                 S |-> "s", T |-> "t", U |-> "u", V |-> "v", W |-> "w", X |-> "x",
                 Y |-> "y", Z |-> "z"]
LowerChar(c) == IF c \in UpperLetters THEN UpperToLower[c] ELSE c
\* str.lower()
Lower(str) == [i \in 1..Len(str) |-> LowerChar(str[i])]
\* str.replace(a, b) for single characters
ReplaceChar(str, a, b) == [i \in 1..Len(str) |-> IF str[i] = a THEN b ELSE str[i]]
\* re.sub(r"[^a-z0-9-]", "", str)
KeepNameChars(str) == SelectSeq(str, LAMBDA c : c \in LowerLetters \cup Digits \cup {"-"})
StartsWith(str, pre) == Len(str) >= Len(pre) /\ SubSeq(str, 1, Len(pre)) = pre
EndsWith(str, suf) ==
    Len(str) >= Len(suf) /\ SubSeq(str, Len(str) - Len(suf) + 1, Len(str)) = suf
RemoveSuffix(str, suf) ==
    IF EndsWith(str, suf) THEN SubSeq(str, 1, Len(str) - Len(suf)) ELSE str
RECURSIVE RStrip(_, _)
RStrip(str, c) ==
    IF str # <<>> /\ str[Len(str)] = c THEN RStrip(SubSeq(str, 1, Len(str) - 1), c) ELSE str
RECURSIVE LStrip(_, _)
LStrip(str, c) == IF str # <<>> /\ Head(str) = c THEN LStrip(Tail(str), c) ELSE str
Strip(str, c) == LStrip(RStrip(str, c), c)
Contains(str, c) == \E i \in 1..Len(str) : str[i] = c
\* str.find(c) among a set of characters, 1-based; Len+1 when absent
FirstOf(str, cs) ==
    IF \E i \in 1..Len(str) : str[i] \in cs
    THEN CHOOSE i \in 1..Len(str) : str[i] \in cs /\ \A j \in 1..(i - 1) : str[j] \notin cs
    ELSE Len(str) + 1
LastOf(str, c) ==
    IF Contains(str, c)
    THEN CHOOSE i \in 1..Len(str) : str[i] = c /\ \A j \in (i + 1)..Len(str) : str[j] # c
    ELSE 0
Before(str, i) == SubSeq(str, 1, i - 1)
After(str, i) == SubSeq(str, i + 1, Len(str))

(***************************************************************************)
(* ipaddress.ip_address(hostname), as urlsplit's _check_bracketed_host     *)
(* uses it to validate the host between '[' and ']'.                       *)
(***************************************************************************)
RECURSIVE Split(_, _)
\* str.split(c): the pieces between the occurrences of one character
Split(str, c) ==
    LET cut == FirstOf(str, {c}) IN
    IF cut > Len(str) THEN <<str>>
    ELSE <<Before(str, cut)>> \o Split(After(str, cut), c)
HexDigits == Digits \cup {"a", "b", "c", "d", "e", "f", "A", "B", "C", "D", "E", "F"}
DigitSeq == <<"0", "1", "2", "3", "4", "5", "6", "7", "8", "9">>
DigitValue(c) == (CHOOSE i \in 1..10 : DigitSeq[i] = c) - 1
RECURSIVE DecimalValue(_)
\* int(digits, 10)
DecimalValue(digits) ==
    IF digits = <<>> THEN 0
    ELSE 10 * DecimalValue(SubSeq(digits, 1, Len(digits) - 1)) + DigitValue(digits[Len(digits)])
\* _BaseV4._parse_octet accepts: decimal digits, at most three, no leading
\* zero, at most 255
IsOctet(o) ==
    /\ o # <<>>
    /\ \A i \in 1..Len(o) : o[i] \in Digits
    /\ Len(o) <= 3
    /\ (o = <<"0">> \/ o[1] # "0")
    /\ DecimalValue(o) <= 255
\* IPv4Address(h) is constructed
IsIPv4(h) ==
    /\ h # <<>>
    /\ ~Contains(h, "/")
    /\ LET octets == Split(h, ".") IN
       Len(octets) = 4 /\ \A i \in 1..4 : IsOctet(octets[i])
\* _BaseV6._parse_hextet accepts: one to four hex digits
IsHextet(part) ==
    /\ Len(part) \in 1..4
    /\ \A i \in 1..Len(part) : part[i] \in HexDigits
\* _BaseV6._ip_int_from_string accepts the parts between the ':'
IsIPv6Parts(parts0) ==
    LET n0 == Len(parts0)
        v4 == n0 >= 3 /\ Contains(parts0[n0], ".")
        \* an IPv4-style suffix is replaced by its two hextets
        parts == IF v4 THEN SubSeq(parts0, 1, n0 - 1) \o <<<<"0">>, <<"0">>>> ELSE parts0
        n == Len(parts)
        skips == {i \in 2..(n - 1) : parts[i] = <<>>}
    IN  /\ n0 >= 3
        /\ v4 => IsIPv4(parts0[n0])
        /\ n <= 9
        /\ Cardinality(skips) <= 1
        /\ IF skips # {}
           THEN LET skip == CHOOSE i \in skips : TRUE
                    hi0 == skip - 1
                    lo0 == n - skip
                    parts_hi == IF parts[1] = <<>> THEN hi0 - 1 ELSE hi0
                    parts_lo == IF parts[n] = <<>> THEN lo0 - 1 ELSE lo0
                IN  /\ parts[1] = <<>> => parts_hi = 0
                    /\ parts[n] = <<>> => parts_lo = 0
                    /\ 8 - (parts_hi + parts_lo) >= 1
                    /\ \A i \in 1..parts_hi : IsHextet(parts[i])
                    /\ \A i \in (n - parts_lo + 1)..n : IsHextet(parts[i])
           ELSE /\ n = 8
                /\ \A i \in 1..n : IsHextet(parts[i])
\* IPv6Address(h) is constructed: an optional %scope after the address
IsIPv6(h) ==
    LET pct == FirstOf(h, {"%"})
        addr == Before(h, pct)
        scope == After(h, pct)
    IN  /\ ~Contains(h, "/")
        /\ pct <= Len(h) => (scope # <<>> /\ ~Contains(scope, "%"))
        /\ addr # <<>>
        /\ IsIPv6Parts(Split(addr, ":"))
\* re.match(r"\Av[a-fA-F0-9]+\..+\Z", h)
IsIPvFuture(h) ==
    \E k \in 1..Len(h) :
        /\ h[1] = "v"
        /\ \A i \in 2..(k + 1) : i <= Len(h) /\ h[i] \in HexDigits
        /\ k + 3 <= Len(h)
        /\ h[k + 2] = "."
\* _check_bracketed_host(hostname) raises ValueError
CheckBracketedHostRaises(h) ==
    IF h # <<>> /\ h[1] = "v" THEN ~IsIPvFuture(h) ELSE ~IsIPv6(h)

(***************************************************************************)
(* urllib.parse.urlparse(url): [raises, scheme, netloc, path].  Leading    *)
(* C0 control characters and spaces are stripped and tab, CR and LF are    *)
(* removed; the scheme is split off at the first ':' when all characters   *)
(* before it are scheme characters; after '//' the network location runs   *)
(* to the first of '/', '?', '#', an unbalanced '[' or ']' in it is a      *)
(* ValueError and so is a bracketed host that is no IPv6 or IPvFuture      *)
(* address; the fragment and the query are cut off; for a scheme that uses *)
(* params the path is cut at the first ';' of its last segment.  (Of the   *)
(* C0 controls the strings of the model hold tab, CR and LF; they hold no  *)
(* character outside ASCII, so _checknetloc never raises.)                 *)
(***************************************************************************)
SchemeChars == LowerLetters \cup UpperLetters \cup Digits \cup {"+", "-", "."}
C0ControlOrSpace == {" ", "\t", "\n", "\r"}
UnsafeUrlBytesToRemove == {"\t", "\r", "\n"}
RECURSIVE LStripSet(_, _)
\* str.lstrip(chars)
LStripSet(str, cs) ==
    IF str # <<>> /\ Head(str) \in cs THEN LStripSet(Tail(str), cs) ELSE str
Str_ftp == <<"f", "t", "p">>
Str_http == <<"h", "t", "t", "p">>
Str_https == <<"h", "t", "t", "p", "s">>
\* urllib.parse.uses_params
UsesParams ==
    {<<>>, Str_ftp, <<"h", "d", "l">>, <<"p", "r", "o", "s", "p", "e", "r", "o">>, Str_http,
     <<"i", "m", "a", "p">>, Str_https, <<"s", "h", "t", "t", "p">>,
     <<"r", "t", "s", "p">>, <<"r", "t", "s", "p", "s">>, <<"r", "t", "s", "p", "u">>,
     <<"s", "i", "p">>, <<"s", "i", "p", "s">>, <<"m", "m", "s">>,
     <<"s", "f", "t", "p">>, <<"t", "e", "l">>}
\* _splitparams(url)[0]
SplitParams(url) ==
    LET slash == LastOf(url, "/")
        tail == After(url, slash)
        semi == FirstOf(tail, {";"})
    IN  IF Contains(url, "/")
        THEN (IF semi > Len(tail) THEN url ELSE Before(url, slash + semi))
        ELSE Before(url, FirstOf(url, {";"}))
UrlParse(url0) ==
    LET url == SelectSeq(LStripSet(url0, C0ControlOrSpace),
                         LAMBDA c : c \notin UnsafeUrlBytesToRemove)
        colon == FirstOf(url, {":"})
        hasScheme == /\ colon > 1 /\ colon <= Len(url)
                     /\ url[1] \in LowerLetters \cup UpperLetters
                     /\ \A i \in 1..(colon - 1) : url[i] \in SchemeChars
        scheme == IF hasScheme THEN Lower(Before(url, colon)) ELSE <<>>
        rest == IF hasScheme THEN After(url, colon) ELSE url
        hasNetloc == StartsWith(rest, <<"/", "/">>)
        afterSlashes == SubSeq(rest, 3, Len(rest))
        delim == FirstOf(afterSlashes, {"/", "?", "#"})
        netloc == IF hasNetloc THEN Before(afterSlashes, delim) ELSE <<>>
        rest2 == IF hasNetloc THEN SubSeq(afterSlashes, delim, Len(afterSlashes)) ELSE rest
        opens == Contains(netloc, "[")
        closes_ == Contains(netloc, "]")
        afterOpen == After(netloc, FirstOf(netloc, {"["}))
        bracketed_host == Before(afterOpen, FirstOf(afterOpen, {"]"}))
        noFragment == Before(rest2, FirstOf(rest2, {"#"}))
        noQuery == Before(noFragment, FirstOf(noFragment, {"?"}))
        path == IF scheme \in UsesParams /\ Contains(noQuery, ";")
                THEN SplitParams(noQuery) ELSE noQuery
    IN  [raises |-> \/ opens # closes_
                    \/ (opens /\ closes_ /\ CheckBracketedHostRaises(bracketed_host)),
         scheme |-> scheme, netloc |-> netloc, path |-> path]

\* generate_store_name_from_url(repo_url): [raises, name]
GenerateStoreNameFromUrl(repo_url) ==
    LET Named(store_name) == IF store_name = <<>> THEN Str_unknown_repo ELSE store_name
        FromPath(path) ==
            Named(Strip(KeepNameChars(ReplaceChar(Lower(path), "/", "-")), "-"))
        FromParsed(url, parsed) ==
            [raises |-> ~StartsWith(url, Str_gitat) /\ parsed.raises,
             name |-> FromPath(IF StartsWith(url, Str_gitat)
                               THEN After(url, LastOf(url, ":"))
                               ELSE LStrip(parsed.path, "/"))]
        FromUrl(url) == FromParsed(url, UrlParse(url))
    IN  FromUrl(RemoveSuffix(RStrip(repo_url, "/"), Str_git))

\* the segments of a path between its '/'
RECURSIVE Segments(_)
Segments(str) ==
    LET s1 == LStrip(str, "/") IN
    IF s1 = <<>> THEN <<>>
    ELSE LET cut == FirstOf(s1, {"/"}) IN
         <<Before(s1, cut)>> \o Segments(SubSeq(s1, cut, Len(s1)))
\* '.' is dropped, '..' drops the segment before it (the parent of the root
\* is the root)
RECURSIVE Resolve(_, _)
Resolve(done, todo) ==
    IF todo = <<>> THEN done
    ELSE IF Head(todo) = <<".">> THEN Resolve(done, Tail(todo))
    ELSE IF Head(todo) = <<".", ".">>
         THEN Resolve(IF done = <<>> THEN <<>> ELSE SubSeq(done, 1, Len(done) - 1), Tail(todo))
    ELSE Resolve(Append(done, Head(todo)), Tail(todo))
\* Path(local_path).resolve() in a process whose working directory is cwd,
\* on a filesystem without symbolic links: the segments of the absolute
\* path.  A path that does not start with '/' (the empty path too) is taken
\* from the working directory.
ResolvedPath(cwd, local_path) ==
    IF local_path # <<>> /\ Head(local_path) = "/"
    THEN Resolve(<<>>, Segments(local_path))
    ELSE Resolve(Segments(cwd), Segments(local_path))
DocFolders == {Str_docs, Str_doc, Str_documentation, Str_wiki}
\* the store name made of a folder name
NormalizeName(name) ==
    LET store_name == KeepNameChars(ReplaceChar(Lower(name), "_", "-"))
    IN  IF store_name = <<>> THEN Str_local_docs ELSE store_name
\* a derivation that always names the store after the final segment
GenerateStoreNameFromPathOwnName(cwd, local_path) ==
    LET segs == ResolvedPath(cwd, local_path)
    IN  NormalizeName(IF segs = <<>> THEN <<>> ELSE segs[Len(segs)])
\* generate_store_name_from_path(local_path), called in a process whose
\* working directory is cwd; .name is the last segment, .parent.name the
\* one before it
GenerateStoreNameFromPath(cwd, local_path) ==
    LET segs == ResolvedPath(cwd, local_path)
        n == Len(segs)
        pname == IF n = 0 THEN <<>> ELSE segs[n]
        parent == IF n >= 2 THEN segs[n - 1] ELSE <<>>
        name == IF Lower(pname) \in DocFolders /\ parent # <<>> THEN parent ELSE pname
        store_name == KeepNameChars(ReplaceChar(Lower(name), "_", "-"))
    IN  IF store_name = <<>> THEN Str_local_docs ELSE store_name

(***************************************************************************)
(* The Experience Store (server/weaviate_store.py).  The collection is a   *)
(* sequence of property records in insertion order; the identifier the     *)
(* backend assigns to an object is its position.                           *)
(***************************************************************************)
RECURSIVE PyRepr(_)
RECURSIVE PyReprMembers(_)
\* repr(v), the text str(v) gives for a value that is not a str
PyRepr(v) ==
    CASE v.k = "none" -> <<Plain("None")>>
      [] v.k = "bool" -> <<Plain(v.s)>>
      [] v.k = "int" -> <<Plain(v.s)>>
      [] v.k = "float" -> <<Plain(JsonFloatRepr(v.s))>>
      [] v.k = "str" -> <<Quoted("sq", v)>>
      [] OTHER -> <<Tok("{")>> \o PyReprMembers(v.m) \o <<Tok("}")>>
PyReprMembers(items) ==
    IF items = <<>> THEN <<>>
    ELSE PyRepr(Head(items).key) \o <<Tok(":")>> \o PyRepr(Head(items).val)
         \o (IF Len(items) > 1 THEN <<Tok(",")>> ELSE <<>>)
         \o PyReprMembers(Tail(items))
\* str(v)
PyStr(v) ==
    CASE v.k = "str" -> v
      [] v.k = "dict" -> PText(PyRepr(v))
      [] OTHER -> PStr(PyRepr(v)[1].s)

RequestOf(data) == DictGet(data, "request", EmptyDict)
\* the chained .get calls of add_experience raise AttributeError when the
\* request or one of its sections is present and is not a dict
AddExperienceRaises(data) ==
    LET r == RequestOf(data) IN
    \/ ~IsDict(r)
    \/ \E sec \in {"design_context", "content", "reproduction", "metrics"} :
          ~IsDict(DictGet(r, sec, EmptyDict))
\* a success flag that any reported result sets
SuccessFlagAnyResult(content) ==
    IF Truthy(DictGet(content, "result", PNone)) THEN PBool("True") ELSE PBool("False")
\* `... .get("result") == "SUCCESS"`
SuccessFlag(content) ==
    IF DictGet(content, "result", PNone) = PStr("SUCCESS") THEN PBool("True") ELSE PBool("False")
\* the properties add_experience inserts for a request it can read
ExperienceProperties(data) ==
    LET r == RequestOf(data)
        content == DictGet(r, "content", EmptyDict)
    IN  [language |-> DictGet(r, "language", PStr("")),
         framework |-> DictGet(r, "framework", PStr("")),
         pattern |-> DictGet(DictGet(r, "design_context", EmptyDict), "pattern", PStr("")),
         input_sample |->
             PyStr(DictGet(DictGet(r, "reproduction", EmptyDict), "input_sample", PStr(""))),
         code_result |-> PText(JsonDumps(DictGet(content, "code", EmptyDict))),
         success |-> SuccessFlag(content),
         execution_time |->
             DictGet(DictGet(r, "metrics", EmptyDict), "execution_time_ms", PInt("0")),
         full_json |-> PText(JsonDumps(data))]

\* near_vector(limit=limit): the positions of the objects the backend returns,
\* nearest first.  The ranking is the backend's; `order` picks one.
RECURSIVE Reverse(_)
Reverse(seq) == IF seq = <<>> THEN <<>> ELSE Reverse(Tail(seq)) \o <<Head(seq)>>
Ranking(n, order) ==
    LET asc == [i \in 1..n |-> i] IN IF order = "desc" THEN Reverse(asc) ELSE asc
SearchHits(store, limit, order) ==
    LET all == Ranking(Len(store), order) IN
    SubSeq(all, 1, IF Len(all) < limit THEN Len(all) ELSE limit)

(***************************************************************************)
(* The tool operations of server/main.py.  A tool is a coroutine: the      *)
(* event loop runs it without interruption up to an `await`, serves other  *)
(* calls while the awaited backend call is under way, and runs it on when  *)
(* that call returns or raises.  search_experience and add_experience are  *)
(* synchronous; query_docs and generate_content are awaited.               *)
(*                                                                         *)
(* An operation is a function of the Server State handles, the Experience  *)
(* Store's contents, `data` (what _parse_code_request makes of the request *)
(* text; the parser is pure and never raises) and `env`, the outcomes of   *)
(* the synchronous backend calls it makes:                                 *)
(*   env.add, env.search   "ok" or "raise";                                *)
(*   env.order             the ranking of a search.                        *)
(* It yields [store, calls, resp]: the store's contents afterwards, the    *)
(* backend calls made in order, and the response.  resp.kind = "exception" *)
(* is an exception leaving the operation; resp.kind = "awaiting" is an     *)
(* operation suspended at its await, the last of `calls` being the awaited *)
(* call (outcome "awaited").  The ...Returns operators run the operation   *)
(* on from the await with `out`, what the awaited call came to:            *)
(*   out.outcome   "ok" or "raise";                                        *)
(*   out.text      the text the model answers.                             *)
(***************************************************************************)
NoPrompt == [kind |-> "none", request |-> <<>>, context |-> <<>>]
\* a backend call: the function, a search's limit, the number of objects the
\* collection held and the positions the search returned, the prompt of a
\* generate call, and "ok", "raise" or "awaited"
Call(fn, outcome) ==
    [fn |-> fn, limit |-> 0, size |-> 0, hits |-> <<>>, prompt |-> NoPrompt,
     outcome |-> outcome]
SearchLimit == 3
SearchCall(size, hits, outcome) ==
    [fn |-> "search_experience", limit |-> SearchLimit, size |-> size, hits |-> hits,
     prompt |-> NoPrompt, outcome |-> outcome]
GenerateCall(prompt, outcome) ==
    [fn |-> "generate_content", limit |-> 0, size |-> 0, hits |-> <<>>, prompt |-> prompt,
     outcome |-> outcome]
Resp(kind) == [kind |-> kind, text |-> "", id |-> 0]
RespText(kind, text, id) == [kind |-> kind, text |-> text, id |-> id]
Result(store, calls, resp) == [store |-> store, calls |-> calls, resp |-> resp]
\* the calls of a resumed operation: the awaited call has ended in `outcome`
Awaited(calls, outcome) == [calls EXCEPT ![Len(calls)].outcome = outcome]

\* ask_project_document without its guard
DocStoreReadyUnguarded(rc, sid) == TRUE
\* `_state.rag_client is None or _state.store_id is None` (negated)
DocStoreReady(rc, sid) == rc /\ sid # 0
\* _sync_query_docs: `response.text or "No answer found in the documents."`
AnswerText(text) == IF text = "" THEN "No answer found in the documents." ELSE text

\* ask_project_document(question) up to `await _state.rag_client.query_docs`
AskProjectDocument(rc, sid, store) ==
    IF ~DocStoreReady(rc, sid) THEN Result(store, <<>>, Resp("not_initialized"))
    ELSE Result(store, <<Call("query_docs", "awaited")>>, Resp("awaiting"))
\* ... and from there: the answer, or the error text of the `except Exception`
AskProjectDocumentReturns(calls, out) ==
    [calls |-> Awaited(calls, out.outcome),
     resp |-> IF out.outcome = "raise" THEN Resp("query_failed")
              ELSE RespText("answer", AnswerText(out.text), 0)]

\* a get_store_info that reports whatever the handles hold
GetStoreInfoUnguarded(sname, sid, store) == Result(store, <<>>, RespText("store_info", "", sid))
\* get_store_info(): sname is the display name or NoStr, sid the backend id or 0
GetStoreInfo(sname, sid, store) ==
    IF sname = <<"<None>">> THEN Result(store, <<>>, Resp("no_store"))
    ELSE Result(store, <<>>, RespText("store_info", "", sid))

\* `_state.experience_store is None or _state.rag_client is None` (negated)
CodeToolsAvailable(es, rc) == es /\ rc

\* the query text of ask_code_pattern raises AttributeError when the request,
\* its design_context or its content is present and is not a dict
AskQueryRaises(data) ==
    LET r == RequestOf(data) IN
    \/ ~IsDict(r)
    \/ ~IsDict(DictGet(r, "design_context", EmptyDict))
    \/ ~IsDict(DictGet(r, "content", EmptyDict))

\* a context block that leaves the stored code out
AskContextEntryWithoutCode(i, props) ==
    [n |-> i, language |-> props.language, pattern |-> props.pattern,
     success |-> props.success, code_result |-> PStr("")]
\* one "--- Experience i ---" block of ask_code_pattern's context
AskContextEntry(i, props) ==
    [n |-> i, language |-> props.language, pattern |-> props.pattern,
     success |-> props.success, code_result |-> props.code_result]
AskContext(store, hits) ==
    [i \in 1..Len(hits) |-> AskContextEntry(i, store[hits[i]])]
AskPrompt(req_body, context) ==
    [kind |-> "advise", request |-> JsonDumps(req_body), context |-> context]

\* ask_code_pattern(request_data) up to `await ... generate_content(prompt)`
AskCodePattern(es, rc, store, data, env) ==
    IF ~CodeToolsAvailable(es, rc) THEN Result(store, <<>>, Resp("not_available"))
    ELSE IF ~IsDict(data) THEN Result(store, <<>>, Resp("invalid_format"))
    ELSE IF AskQueryRaises(data) THEN Result(store, <<>>, Resp("exception"))
    ELSE IF env.search = "raise"
    THEN Result(store, <<SearchCall(Len(store), <<>>, "raise")>>, Resp("exception"))
    ELSE LET hits == SearchHits(store, SearchLimit, env.order)
             prompt == AskPrompt(RequestOf(data), AskContext(store, hits))
         IN  Result(store, <<SearchCall(Len(store), hits, "ok"),
                             GenerateCall(prompt, "awaited")>>,
                    Resp("awaiting"))
\* ... and from there: `return await ...` hands on the text or the exception
AskCodePatternReturns(calls, out) ==
    [calls |-> Awaited(calls, out.outcome),
     resp |-> IF out.outcome = "raise" THEN Resp("exception")
              ELSE RespText("generated", out.text, 0)]

\* the advice branch taken for every reported result
IsFailureReportAnyResult(result_val) == result_val # PNone
\* `if result_val == "FAILED"`
IsFailureReport(result_val) == result_val = PStr("FAILED")
\* the "- Successful Pattern i" entries: the hits whose success property is true
TellContextKeeps(props) == Truthy(props.success)
TellContext(store, hits) ==
    LET idx == SelectSeq([i \in 1..Len(hits) |-> i],
                         LAMBDA i : TellContextKeeps(store[hits[i]]))
    IN  [j \in 1..Len(idx) |->
            [n |-> idx[j], language |-> PStr(""), pattern |-> store[hits[idx[j]]].pattern,
             success |-> PStr(""), code_result |-> store[hits[idx[j]]].code_result]]
TellPrompt(req_body, context) ==
    [kind |-> "remedy", request |-> JsonDumps(req_body), context |-> context]

\* tell_code_pattern(request_data) up to `await ... generate_content(prompt)`;
\* only a failure report with a non-empty context gets that far
TellCodePattern(es, rc, store, data, env) ==
    IF ~CodeToolsAvailable(es, rc) THEN Result(store, <<>>, Resp("not_available"))
    ELSE IF ~IsDict(data) THEN Result(store, <<>>, Resp("invalid_format"))
    ELSE IF AddExperienceRaises(data) \/ env.add = "raise"
    THEN Result(store, <<Call("add_experience", "raise")>>, Resp("record_failed"))
    ELSE LET store2 == Append(store, ExperienceProperties(data))
             uuid == Len(store2)
             added == <<Call("add_experience", "ok")>>
             req_body == RequestOf(data)
             result_val == DictGet(DictGet(req_body, "content", EmptyDict), "result", PNone)
         IN
    IF ~IsFailureReport(result_val)
    THEN Result(store2, added, RespText("learned_success", "", uuid))
    ELSE IF env.search = "raise"
    THEN Result(store2, added \o <<SearchCall(Len(store2), <<>>, "raise")>>,
                Resp("exception"))
    ELSE LET hits == SearchHits(store2, SearchLimit, env.order)
             context == TellContext(store2, hits)
             prompt == TellPrompt(req_body, context)
         IN
    IF context = <<>>
    THEN Result(store2, added \o <<SearchCall(Len(store2), hits, "ok")>>,
                RespText("learned_no_precedent", "", uuid))
    ELSE Result(store2, added \o <<SearchCall(Len(store2), hits, "ok"),
                                   GenerateCall(prompt, "awaited")>>,
                RespText("awaiting", "", uuid))
\* ... and from there: the advice with the record's id, or the exception
TellCodePatternReturns(calls, uuid, out) ==
    [calls |-> Awaited(calls, out.outcome),
     resp |-> IF out.outcome = "raise" THEN Resp("exception")
              ELSE RespText("learned_advice", out.text, uuid)]

(***************************************************************************)
(* Configuration (config.py) and the inputs the model draws from.          *)
(***************************************************************************)
\* a str setting that is None (the environment variable is not set)
NoStr == <<"<None>">>
\* bool(setting) of a str-or-None setting
IsSet(str) == str # NoStr /\ str # <<>>

GoodUrl == <<"h", ":", "/", "/", "g", "/", "A", "/", "b", ".", "g", "i", "t">>
BadUrl == <<"h", ":", "/", "/", "[", "g", "/", "a">>
LocalPath == <<"/", "p", "_", "q", "/", "D", "o", "c", "s">>
CustomName == <<"c", "n">>
\* the working directory of the server process
ServerCwd == <<"/", "s", "r", "v">>

Cfg(url, path, name, force, key) ==
    [rag_repo_url |-> url, rag_local_docs_path |-> path, rag_store_name |-> name,
     rag_force_reindex |-> force, gemini_api_key |-> key]
Configs ==
    { Cfg(NoStr, NoStr, NoStr, FALSE, TRUE),
      Cfg(GoodUrl, NoStr, NoStr, FALSE, TRUE),
      Cfg(GoodUrl, NoStr, NoStr, TRUE, TRUE),
      Cfg(GoodUrl, NoStr, NoStr, FALSE, FALSE),
      Cfg(BadUrl, NoStr, NoStr, FALSE, TRUE),
      Cfg(NoStr, LocalPath, NoStr, FALSE, TRUE),
      Cfg(GoodUrl, LocalPath, <<>>, FALSE, TRUE),
      Cfg(GoodUrl, NoStr, CustomName, FALSE, TRUE) }

\* Config.has_document_source
HasDocumentSource(c) == IsSet(c.rag_repo_url) \/ IsSet(c.rag_local_docs_path)

\* lifespan's "Determine store name": [raises, name]
DetermineStoreName(c) ==
    IF IsSet(c.rag_store_name) THEN [raises |-> FALSE, name |-> c.rag_store_name]
    ELSE IF IsSet(c.rag_repo_url) THEN GenerateStoreNameFromUrl(c.rag_repo_url)
    ELSE [raises |-> FALSE, name |-> GenerateStoreNameFromPath(ServerCwd, c.rag_local_docs_path)]

\* The requests the tool operations are called with.
PayloadSuccess ==
    PDict(<<KV("request", PDict(<<KV("language", PStr("Python")), KV("framework", PStr("FastAPI")),
        KV("design_context", PDict(<<KV("pattern", PStr("Singleton"))>>)),
        KV("content", PDict(<<KV("result", PStr("SUCCESS")), KV("feature_details", PStr("pool")),
                           KV("code", PDict(<<KV("success", PStr("classDB"))>>))>>))>>))>>)
PayloadFailed ==
    PDict(<<KV("request", PDict(<<KV("language", PStr("Python")), KV("framework", PStr("FastAPI")),
        KV("design_context", PDict(<<KV("pattern", PStr("Singleton"))>>)),
        KV("content", PDict(<<KV("result", PStr("FAILED")), KV("feature_details", PStr("recursion"))>>))>>))>>)
PayloadAsk ==
    PDict(<<KV("request", PDict(<<KV("language", PStr("Python")), KV("framework", PStr("FastAPI")),
        KV("design_context", PDict(<<KV("pattern", PStr("Singleton"))>>)),
        KV("content", PDict(<<KV("feature_details", PStr("how"))>>))>>))>>)
\* `request: Python`: a mapping whose request is not a mapping
PayloadFlat == PDict(<<KV("request", PStr("Python"))>>)
RequestTexts ==
    [success_yaml |-> YamlDump(PayloadSuccess),
     success_json2 |-> JsonDumps(PText(JsonDumps(PayloadSuccess))),
     failed_json |-> JsonDumps(PayloadFailed),
     ask_yaml |-> YamlDump(PayloadAsk),
     flat_yaml |-> YamlDump(PayloadFlat),
     garbage |-> <<Plain("not a valid payload {{{")>>]
Requests == DOMAIN RequestTexts
\* _parse_code_request(request_data) for each of them
ParsedRequests == [n \in Requests |-> ParseCodeRequest(RequestTexts[n])]

\* the outcomes of the synchronous calls of a code tool
OkEnv == [add |-> "ok", search |-> "ok", order |-> "asc"]
CodeEnvs == { [OkEnv EXCEPT !.order = o] : o \in {"asc", "desc"} }
             \cup { [OkEnv EXCEPT !.add = "raise"], [OkEnv EXCEPT !.search = "raise"] }
\* what an awaited query_docs or generate_content call comes to
Outs == { [outcome |-> "ok", text |-> "text"], [outcome |-> "ok", text |-> ""],
          [outcome |-> "raise", text |-> ""] }

\* the most experience records the model lets the store hold: in the
\* specification of the tools, and in the specification of every startup
MaxExperiences == 4
MaxServedExperiences == 1
\* the most tool calls the model lets wait at an await at one time
MaxInFlight == 1
\* the most documentation files the model lets a loader find
MaxDocFiles == 2

(***************************************************************************)
(* The file-search backend (server/gemini.py): `stores` is the sequence of *)
(* display names of the backend's stores; a store's id is its position.    *)
(***************************************************************************)
\* a _sync_find_store that finds no store
FindStoreFindsNothing(ss, name) == 0
\* _sync_find_store: the first store of that display name, or 0
FindStore(ss, name) ==
    IF \E i \in 1..Len(ss) : ss[i] = name
    THEN CHOOSE i \in 1..Len(ss) : ss[i] = name /\ \A j \in 1..(i - 1) : ss[j] # name
    ELSE 0
\* a get_or_create_store that deletes the store it finds and creates a new one
GetOrCreateStoreRecreates(ss, name) ==
    [stores |-> Append([i \in 1..Len(ss) |-> IF ss[i] = name THEN <<>> ELSE ss[i]], name),
     id |-> Len(ss) + 1]
\* get_or_create_store run from its call to its return with no other call of
\* the client in between: [stores, id]
GetOrCreateStore(ss, name) ==
    IF FindStore(ss, name) # 0 THEN [stores |-> ss, id |-> FindStore(ss, name)]
    ELSE [stores |-> Append(ss, name), id |-> Len(ss) + 1]

\* the reuse test with the force flag read the wrong way round
ReuseExistingForceInverted(found, force) == found # 0 /\ force
\* `if exists and existing_store and not config.rag_force_reindex`
ReuseExisting(found, force) == found # 0 /\ ~force

\* an entry of lifespan's call log: what was called and how it ended
StartupCall(fn, outcome) == [fn |-> fn, outcome |-> outcome]

VARIABLES
    config,            \* the configuration snapshot get_config() returns
    stores,            \* the file-search stores of the generative backend
    pc,                \* where lifespan stands
    display_name,      \* lifespan's local display_name
    loading,           \* the locals of the document loader lifespan awaits
    experience_store,  \* _state.experience_store is set
    rag_client,        \* _state.rag_client is set
    store_name,        \* _state.store_name, NoStr when None
    store_id,          \* _state.store_id, 0 when None
    experiences,       \* the objects of the Experience collection
    startup_calls,     \* what lifespan has called, in order
    yields,            \* how often lifespan has yielded to the server
    closes,            \* how often ExperienceStore.close() has been called
    in_flight,         \* the tool calls suspended at an await
    last,              \* the latest tool call the running server answered:
                       \* operation, request, backend calls, response
    parsing,           \* a payload and what _parse_code_request made of its
                       \* encodings (used by SpecParse only)
    gemini,            \* a GeminiClient and its backend's stores (SpecStore only)
    loop,              \* the event loop serving concurrent tool calls (SpecLoop only)
    naming,            \* a store name derivation and its result (SpecNames only)
    auth,              \* the auth provider and a connection's token (SpecAuth only)
    uploading,         \* one upload_documents call (SpecUpload only)
    environ            \* os.environ and the cache of get_config (SpecConfig only)
vars == <<config, stores, pc, display_name, loading, experience_store, rag_client,
          store_name, store_id, experiences, startup_calls, yields, closes, in_flight,
          last, parsing, gemini, loop, naming, auth, uploading, environ>>
\* the variables of the specifications that exercise one unit on its own
unit_vars == <<parsing, gemini, loop, naming, auth, uploading, environ>>

NoCall == [op |-> "none", req |-> "", calls |-> <<>>, resp |-> Resp("none")]
\* no loader running: whether the temporary directory exists, the store id
\* get_or_create_store returned (0 before it has) and the files still to upload
NoLoading == [temp_dir |-> FALSE, id |-> 0, files |-> 0]
\* an encoding _parse_code_request has not been given yet
NotParsed == [data |-> PNone, attempts |-> <<>>]
NoParsing == [payload |-> PNone, text |-> <<>>, compact |-> NotParsed,
              json |-> NotParsed, double |-> NotParsed, raw |-> NotParsed]
\* a GeminiClient nothing has been asked of: the backend's stores (display
\* names, a store's id is its position, <<>> marks a deleted store), the
\* memoized file_search_store_name (0 when None), the calls that have
\* returned, in the order of their return, and the calls suspended at an await
NoClient == [stores |-> <<>>, file_search_store_name |-> 0, calls |-> <<>>,
             pending |-> <<>>]
\* an event loop with no tool call to serve: the tasks, the task whose
\* synchronous backend call holds the loop's thread (0: none) and whether the
\* Experience Store holds a record of a success
NoLoop == [tasks |-> <<>>, holder |-> 0, success_stored |-> FALSE]
\* no name derived yet
NoNaming == [kind |-> "none", cwd |-> <<>>, input |-> <<>>, raises |-> FALSE, name |-> <<>>]
\* a server module not imported yet: AUTH_TOKEN (NoStr when unset), the
\* provider ("unbuilt", "none" or "verifier"), the token the latest
\* connection presented and what became of the connection
NoAuth == [auth_token |-> NoStr, provider |-> "unbuilt", presented |-> NoStr,
           outcome |-> "none"]
\* no upload_documents call: the files given, the loop index, where the call
\* stands, the polls of the current operation, the uploads in flight, what
\* the call has done so far and its uploaded_files
NoUpload == [files |-> <<>>, i |-> 0, phase |-> "none", polls |-> 0, in_flight |-> {},
             events |-> <<>>, uploaded_files |-> <<>>]
\* a process that has not called get_config: the environment variables (NoStr
\* when unset), the lru_cache of get_config (<<>> when empty) and the calls
\* made so far, each with the environment it was made in and what it returned
NoEnviron == [env |-> [RAG_STORE_NAME |-> NoStr, RAG_FORCE_REINDEX |-> NoStr],
              cache |-> <<>>, log |-> <<>>]
ReadyStates == {"ready_254", "ready_266", "ready_327"}
Ready == pc \in ReadyStates
\* lifespan is inside init_store_from_repo / init_store_from_local, suspended
\* at: the lookup and the creation of get_or_create_store, create_subprocess_exec,
\* wait_for(process.communicate()), one run_in_executor of upload_documents
LoaderStates == {"load_find", "load_create", "clone_spawn", "clone_wait", "upload"}
\* lifespan is suspended at an await
AwaitStates == {"check_store"} \cup LoaderStates

Init ==
    /\ config \in Configs
    /\ stores \in {<<>>, <<DetermineStoreName(config).name>>}
    /\ pc = "start"
    /\ display_name = NoStr
    /\ loading = NoLoading
    /\ experience_store = FALSE
    /\ rag_client = FALSE
    /\ store_name = NoStr
    /\ store_id = 0
    /\ experiences = <<>>
    /\ startup_calls = <<>>
    /\ yields = 0
    /\ closes = 0
    /\ in_flight = <<>>
    /\ last = NoCall
    /\ parsing = NoParsing
    /\ gemini = NoClient
    /\ loop = NoLoop
    /\ naming = NoNaming
    /\ auth = NoAuth
    /\ uploading = NoUpload
    /\ environ = NoEnviron

state_vars == <<experience_store, rag_client, store_name, store_id>>
tool_vars == <<experiences, in_flight, last>>

(***************************************************************************)
(* lifespan (server/main.py), one action per block up to its next await.   *)
(***************************************************************************)
\* "Initialize Experience Store (Weaviate)": the constructor returns or raises
InitExperienceStore(ok) ==
    /\ pc = "start"
    /\ experience_store' = ok
    /\ startup_calls' = Append(startup_calls,
                                StartupCall("ExperienceStore", IF ok THEN "ok" ELSE "raise"))
    /\ pc' = "doc_source"
    /\ UNCHANGED <<unit_vars, config, stores, display_name, loading, rag_client, store_name,
                   store_id, yields, closes>>
    /\ UNCHANGED tool_vars

\* "Check if we have required configuration for Doc RAG"
CheckDocumentSource ==
    /\ pc = "doc_source"
    /\ IF HasDocumentSource(config)
       THEN pc' = "rag_client" /\ yields' = yields
       ELSE pc' = "ready_254" /\ yields' = yields + 1
    /\ UNCHANGED <<unit_vars, config, stores, display_name, loading, startup_calls, closes>>
    /\ UNCHANGED state_vars
    /\ UNCHANGED tool_vars

\* "Initialize RAG client": GeminiClient() raises without an API key, and when
\* the SDK's client cannot be built (ok = FALSE)
InitRagClient(ok) ==
    /\ pc = "rag_client"
    /\ IF config.gemini_api_key /\ ok
       THEN /\ rag_client' = TRUE /\ pc' = "store_name" /\ yields' = yields
            /\ startup_calls' = Append(startup_calls, StartupCall("GeminiClient", "ok"))
       ELSE /\ rag_client' = FALSE /\ pc' = "ready_266" /\ yields' = yields + 1
            /\ startup_calls' = Append(startup_calls, StartupCall("GeminiClient", "raise"))
    /\ UNCHANGED <<unit_vars, config, stores, display_name, loading, experience_store,
                   store_name, store_id, closes>>
    /\ UNCHANGED tool_vars

\* "Determine store name": outside any try block; then lifespan calls
\* check_store_exists and is suspended there
StoreNameStep ==
    /\ pc = "store_name"
    /\ LET Determined(d) ==
               IF d.raises THEN pc' = "raised" /\ display_name' = display_name
               ELSE pc' = "check_store" /\ display_name' = d.name
       IN  Determined(DetermineStoreName(config))
    /\ UNCHANGED <<unit_vars, config, stores, loading, startup_calls, yields, closes>>
    /\ UNCHANGED state_vars
    /\ UNCHANGED tool_vars

\* the function lifespan awaits for the upload
LoaderFunction(c) ==
    IF IsSet(c.rag_repo_url) THEN "init_store_from_repo" ELSE "init_store_from_local"

\* check_store_exists returns or raises, then the reuse branch or the call of
\* the loader, which runs up to the lookup of get_or_create_store; a raise is
\* caught by the `except Exception` of lines 321-325 and startup goes on to
\* the yield
CheckStoreExists(ok) ==
    /\ pc = "check_store"
    /\ LET found == FindStore(stores, display_name) IN
       /\ startup_calls' =
              Append(startup_calls,
                     StartupCall("check_store_exists",
                                 IF ~ok THEN "raise" ELSE IF found # 0 THEN "found" ELSE "absent"))
              \o (IF ok /\ ~ReuseExisting(found, config.rag_force_reindex)
                  THEN <<StartupCall(LoaderFunction(config), "called")>> ELSE <<>>)
       /\ IF ~ok
          THEN pc' = "ready_327" /\ yields' = yields + 1
               /\ UNCHANGED <<store_name, store_id>>
          ELSE IF ReuseExisting(found, config.rag_force_reindex)
          THEN pc' = "ready_327" /\ yields' = yields + 1
               /\ store_name' = display_name /\ store_id' = found
          ELSE pc' = "load_find" /\ yields' = yields
               /\ UNCHANGED <<store_name, store_id>>
    /\ UNCHANGED <<unit_vars, config, stores, display_name, loading, experience_store,
                   rag_client, closes>>
    /\ UNCHANGED tool_vars

\* a clean-up that runs only when the loader returns
RemoveTempDirOnReturn(temp_dir, how) ==
    IF temp_dir /\ how = "ok" THEN <<StartupCall("remove_temp_dir", "ok")>> ELSE <<>>
\* init_store_from_repo's `finally`: the temporary directory is removed on
\* every way out of the try block that follows mkdtemp, whether the loader
\* returns, raises or is cancelled
RemoveTempDir(temp_dir, how) ==
    IF temp_dir THEN <<StartupCall("remove_temp_dir", "ok")>> ELSE <<>>
\* the exception a loader raises when it ends in `how`; a failed clone's
\* stderr is decoded as UTF-8 for the message, which raises when the bytes
\* git wrote are not UTF-8
LoaderError(fromRepo, how) ==
    CASE how = "store_fails" -> "backend error"
      [] how = "spawn_fails" -> "OSError"
      [] how = "clone_timeout" -> "RuntimeError: Git clone timed out after 120 seconds"
      [] how = "clone_failed" -> "RuntimeError: Git clone failed: <stderr>"
      [] how = "clone_failed_undecodable" -> "UnicodeDecodeError"
      [] how = "no_docs_path" -> IF fromRepo THEN "FileNotFoundError: Docs path not found"
                                 ELSE "FileNotFoundError: Directory not found"
      [] how = "no_files" -> "FileNotFoundError: No documentation files found"
      [] how = "upload_fails" -> "backend error"
      [] how = "cancelled" -> "CancelledError"
      [] OTHER -> "none"
\* a loader that derives the name from the local path whenever one is set
LoaderDisplayNamePathFirst(c, fromRepo) ==
    IF IsSet(c.rag_store_name) THEN c.rag_store_name
    ELSE IF IsSet(c.rag_local_docs_path) THEN GenerateStoreNameFromPath(ServerCwd, c.rag_local_docs_path)
    ELSE GenerateStoreNameFromUrl(c.rag_repo_url).name
\* the display name the loader gives get_or_create_store
LoaderDisplayName(c, fromRepo) ==
    IF IsSet(c.rag_store_name) THEN c.rag_store_name
    ELSE IF fromRepo THEN GenerateStoreNameFromUrl(c.rag_repo_url).name
    ELSE GenerateStoreNameFromPath(ServerCwd, c.rag_local_docs_path)

\* what the loader has done when it leaves in `how` after the calls `log`:
\* the exception, if any, and the `finally`
LeavingLog(log, how) ==
    log \o (IF how # "ok"
            THEN <<StartupCall("raise", LoaderError(IsSet(config.rag_repo_url), how))>>
            ELSE <<>>)
        \o RemoveTempDir(loading.temp_dir, how)
\* the loader's locals once it has left: the directory stays when the
\* clean-up did not remove it
Left(how) == [NoLoading EXCEPT !.temp_dir = loading.temp_dir
                                              /\ RemoveTempDir(loading.temp_dir, how) = <<>>]
\* the loader raises an Exception after the calls `log`: its `finally` runs,
\* lifespan's `except Exception` catches it and startup goes on to the yield
LoaderRaises(log, how) ==
    /\ startup_calls' = startup_calls \o LeavingLog(log, how)
    /\ loading' = Left(how)
    /\ pc' = "ready_327"
    /\ yields' = yields + 1
    /\ UNCHANGED <<stores, display_name, store_name, store_id>>
\* the outcomes of looking for the documentation files
CollectOutcomes == {"no_docs_path", "no_files"} \cup {"files"}
\* "Find docs directory" and "Collect all documentation files" once the
\* sources are there, then upload_documents up to its first run_in_executor;
\* `log` is what the loader called just before and `id` the store's id
CollectFiles(log, id, how, n) ==
    IF how \in {"no_docs_path", "no_files"}
    THEN /\ startup_calls' = startup_calls \o LeavingLog(log \o <<StartupCall("collect_files", how)>>, how)
         /\ loading' = Left(how)
         /\ pc' = "ready_327"
         /\ yields' = yields + 1
         /\ UNCHANGED <<display_name, store_name, store_id>>
    ELSE /\ startup_calls' = startup_calls \o log \o <<StartupCall("collect_files", "ok")>>
         /\ loading' = [loading EXCEPT !.id = id, !.files = n]
         /\ pc' = "upload"
         /\ UNCHANGED <<display_name, store_name, store_id, yields>>
\* get_or_create_store has returned `id`: init_store_from_repo makes the
\* temporary directory and starts git, init_store_from_local looks for the
\* files
StoreObtained(id, how, n) ==
    LET log == <<StartupCall("get_or_create_store", "ok")>> IN
    IF IsSet(config.rag_repo_url)
    THEN /\ startup_calls' = startup_calls \o log \o <<StartupCall("mkdtemp", "ok")>>
         /\ loading' = [loading EXCEPT !.id = id, !.temp_dir = TRUE]
         /\ pc' = "clone_spawn"
         /\ UNCHANGED <<display_name, store_name, store_id, yields>>
    ELSE CollectFiles(log, id, how, n)

\* get_or_create_store's `await self.check_store_exists(...)` returns or raises
LoaderFindStore(ok, how, n) ==
    /\ pc = "load_find"
    /\ LET Looked(got) ==
               IF ~ok
               THEN LoaderRaises(<<StartupCall("get_or_create_store", "raise")>>, "store_fails")
               ELSE IF got.stores = stores
               THEN stores' = stores /\ StoreObtained(got.id, how, n)
               ELSE /\ pc' = "load_create"
                    /\ UNCHANGED <<stores, display_name, loading, startup_calls, store_name,
                                   store_id, yields>>
       IN  Looked(GetOrCreateStore(stores,
                                   LoaderDisplayName(config, IsSet(config.rag_repo_url))))
    /\ UNCHANGED <<unit_vars, config, experience_store, rag_client, closes>>
    /\ UNCHANGED tool_vars

\* get_or_create_store's `await loop.run_in_executor(... _sync_create_store ...)`
\* returns or raises; nothing else changes the backend's stores between the
\* lookup and the creation
LoaderCreateStore(ok, how, n) ==
    /\ pc = "load_create"
    /\ LET Created(got) ==
               IF ~ok
               THEN LoaderRaises(<<StartupCall("get_or_create_store", "raise")>>, "store_fails")
               ELSE stores' = got.stores /\ StoreObtained(got.id, how, n)
       IN  Created(GetOrCreateStore(stores,
                                    LoaderDisplayName(config, IsSet(config.rag_repo_url))))
    /\ UNCHANGED <<unit_vars, config, experience_store, rag_client, closes>>
    /\ UNCHANGED tool_vars

\* `await asyncio.create_subprocess_exec("git", "clone", ...)` returns the
\* process or raises (no git to execute)
CloneSpawned(ok) ==
    /\ pc = "clone_spawn"
    /\ IF ok
       THEN /\ pc' = "clone_wait"
            /\ UNCHANGED <<stores, display_name, loading, startup_calls, store_name, store_id,
                           yields>>
       ELSE LoaderRaises(<<StartupCall("git_clone", "not_started")>>, "spawn_fails")
    /\ UNCHANGED <<unit_vars, config, experience_store, rag_client, closes>>
    /\ UNCHANGED tool_vars

\* `await asyncio.wait_for(process.communicate(), timeout=120)` returns or
\* times out, then the checks that follow
CloneOutcomes == {"clone_timeout", "clone_failed", "clone_failed_undecodable"}
CloneFinished(how, n) ==
    /\ pc = "clone_wait"
    /\ IF how = "clone_timeout"
       THEN LoaderRaises(<<StartupCall("git_clone", "timeout"),
                           StartupCall("process_kill", "ok")>>, how)
       ELSE IF how \in CloneOutcomes
       THEN LoaderRaises(<<StartupCall("git_clone", "failed")>>, how)
       ELSE stores' = stores
            /\ CollectFiles(<<StartupCall("git_clone", "ok")>>, loading.id, how, n)
    /\ UNCHANGED <<unit_vars, config, experience_store, rag_client, closes>>
    /\ UNCHANGED tool_vars

\* one `await loop.run_in_executor(... _sync_upload_file ...)` of
\* upload_documents returns or raises; after the last file the loader returns
\* and lifespan adopts the handle
UploadFileDone(ok) ==
    /\ pc = "upload"
    /\ IF ~ok
       THEN LoaderRaises(<<StartupCall("upload_documents", "raise")>>, "upload_fails")
       ELSE IF loading.files > 1
       THEN /\ loading' = [loading EXCEPT !.files = loading.files - 1]
            /\ UNCHANGED <<stores, pc, display_name, startup_calls, store_name, store_id,
                           yields>>
       ELSE /\ startup_calls' =
                   startup_calls \o LeavingLog(<<StartupCall("upload_documents", "ok")>>, "ok")
            /\ display_name' = LoaderDisplayName(config, IsSet(config.rag_repo_url))
            /\ store_name' = display_name'
            /\ store_id' = loading.id
            /\ loading' = Left("ok")
            /\ pc' = "ready_327"
            /\ yields' = yields + 1
            /\ stores' = stores
    /\ UNCHANGED <<unit_vars, config, experience_store, rag_client, closes>>
    /\ UNCHANGED tool_vars

\* the task running lifespan is cancelled while it is suspended: the
\* CancelledError is raised at the await, runs the loader's `finally`, passes
\* the `except Exception` (it is a BaseException) and leaves lifespan before
\* the yield.  A creation handed to the executor may still go through.
CancelStartup(created) ==
    /\ pc \in AwaitStates
    /\ created => pc = "load_create"
    /\ stores' = IF created
                 THEN Append(stores, LoaderDisplayName(config, IsSet(config.rag_repo_url)))
                 ELSE stores
    /\ startup_calls' = startup_calls \o LeavingLog(<<>>, "cancelled")
    /\ loading' = Left("cancelled")
    /\ pc' = "cancelled"
    /\ UNCHANGED <<unit_vars, config, display_name, yields, closes>>
    /\ UNCHANGED state_vars
    /\ UNCHANGED tool_vars

\* shutdown: lifespan is resumed at its yield and runs to its end; the code
\* after the last yield (lines 329-332) runs only when that yield was reached
Shutdown ==
    /\ Ready
    /\ pc' = "stopped"
    /\ closes' = IF pc = "ready_327" /\ experience_store THEN closes + 1 ELSE closes
    /\ UNCHANGED <<unit_vars, config, stores, display_name, loading, startup_calls, yields>>
    /\ UNCHANGED state_vars
    /\ UNCHANGED tool_vars
\* the server's context is left with an exception (a CancelledError thrown
\* in at the yield): no yield of lifespan is inside a try block, so the
\* exception leaves lifespan there and nothing after the yield runs
ShutdownByException ==
    /\ Ready
    /\ pc' = "stopped"
    /\ UNCHANGED <<unit_vars, config, stores, display_name, loading, startup_calls, yields,
                   closes>>
    /\ UNCHANGED state_vars
    /\ UNCHANGED tool_vars

(***************************************************************************)
(* Tool calls, accepted while the server is Ready.  A call runs up to its  *)
(* await in one step (ToolCall) and from the await to its end in another   *)
(* (ToolReturn); calls that do not await are served in the one step.       *)
(***************************************************************************)
\* a tool call suspended at its await: the operation, the request, the
\* backend calls made so far (the last one is the awaited call), the id of
\* the record it added (0 when none) and whether the awaited call has been
\* silent for longer than any period a caller waits
Suspended(op, req, r) ==
    [op |-> op, req |-> req, calls |-> r.calls, id |-> r.resp.id, overdue |-> FALSE]
\* a tool call that forgets the document store's id
ToolCallResetsStoreId(op, req, r) ==
    /\ Ready
    /\ experiences' = r.store
    /\ IF r.resp.kind = "awaiting"
       THEN /\ Len(in_flight) < MaxInFlight
            /\ in_flight' = Append(in_flight, Suspended(op, req, r))
            /\ last' = last
       ELSE /\ in_flight' = in_flight
            /\ last' = [op |-> op, req |-> req, calls |-> r.calls, resp |-> r.resp]
    /\ store_id' = 0
    /\ UNCHANGED <<unit_vars, config, stores, pc, display_name, loading, startup_calls, yields,
                   closes, experience_store, rag_client, store_name>>
\* the event loop runs the tool `op` on `req` up to its await or its end; r
\* is what the operation made of the state
ToolCall(op, req, r) ==
    /\ Ready
    /\ experiences' = r.store
    /\ IF r.resp.kind = "awaiting"
       THEN /\ Len(in_flight) < MaxInFlight
            /\ in_flight' = Append(in_flight, Suspended(op, req, r))
            /\ last' = last
       ELSE /\ in_flight' = in_flight
            /\ last' = [op |-> op, req |-> req, calls |-> r.calls, resp |-> r.resp]
    /\ UNCHANGED <<unit_vars, config, stores, pc, display_name, loading, startup_calls, yields,
                   closes>>
    /\ UNCHANGED state_vars

CallAskProjectDocument ==
    ToolCall("ask_project_document", "",
             AskProjectDocument(rag_client, store_id, experiences))
CallGetStoreInfo ==
    ToolCall("get_store_info", "", GetStoreInfo(store_name, store_id, experiences))
CallAskCodePattern ==
    \E req \in Requests, env \in CodeEnvs :
        ToolCall("ask_code_pattern", req,
                 AskCodePattern(experience_store, rag_client, experiences,
                                ParsedRequests[req], env))
\* the model serves a tell_code_pattern call with a request of `reqs` while
\* the store holds at most `cap` records afterwards
CallTellCodePattern(reqs, cap) ==
    \E req \in reqs, env \in CodeEnvs :
        LET r == TellCodePattern(experience_store, rag_client, experiences,
                                 ParsedRequests[req], env)
        IN  Len(r.store) <= cap /\ ToolCall("tell_code_pattern", req, r)

\* the suspended call c run on from its await
Returns(c, out) ==
    CASE c.op = "ask_project_document" -> AskProjectDocumentReturns(c.calls, out)
      [] c.op = "ask_code_pattern" -> AskCodePatternReturns(c.calls, out)
      [] OTHER -> TellCodePatternReturns(c.calls, c.id, out)
\* seq without its i-th element
Without(seq, i) == SubSeq(seq, 1, i - 1) \o SubSeq(seq, i + 1, Len(seq))
\* the awaited call of the i-th suspended tool call returns or raises and the
\* event loop runs the tool on to its end
ToolReturn(i, out) ==
    /\ i \in 1..Len(in_flight)
    /\ LET c == in_flight[i]
           r == Returns(c, out)
       IN  last' = [op |-> c.op, req |-> c.req, calls |-> r.calls, resp |-> r.resp]
    /\ in_flight' = Without(in_flight, i)
    /\ UNCHANGED <<unit_vars, config, stores, pc, display_name, loading, startup_calls, yields,
                   closes, experiences>>
    /\ UNCHANGED state_vars
\* time passes: the backend has not answered the i-th suspended query_docs
\* call, and nothing in ask_project_document or query_docs ends the wait
QueryStaysSilent(i) ==
    /\ i \in 1..Len(in_flight)
    /\ in_flight[i].op = "ask_project_document"
    /\ ~in_flight[i].overdue
    /\ in_flight' = [in_flight EXCEPT ![i].overdue = TRUE]
    /\ UNCHANGED <<unit_vars, config, stores, pc, display_name, loading, startup_calls, yields,
                   closes, experiences, last>>
    /\ UNCHANGED state_vars

\* the outcomes a loader step draws from: what the search for the files
\* comes to and how many it finds
LoaderStep ==
    \/ \E ok \in BOOLEAN, how \in CollectOutcomes, n \in 1..MaxDocFiles :
           LoaderFindStore(ok, how, n)
    \/ \E ok \in BOOLEAN, how \in CollectOutcomes, n \in 1..MaxDocFiles :
           LoaderCreateStore(ok, how, n)
    \/ \E ok \in BOOLEAN : CloneSpawned(ok)
    \/ \E how \in CloneOutcomes \cup CollectOutcomes, n \in 1..MaxDocFiles :
           CloneFinished(how, n)
    \/ \E ok \in BOOLEAN : UploadFileDone(ok)
    \/ \E created \in BOOLEAN : CancelStartup(created)

Next ==
    \/ \E ok \in BOOLEAN : InitExperienceStore(ok)
    \/ CheckDocumentSource
    \/ \E ok \in BOOLEAN : InitRagClient(ok)
    \/ StoreNameStep
    \/ \E ok \in BOOLEAN : CheckStoreExists(ok)
    \/ LoaderStep
    \/ Shutdown
    \/ ShutdownByException
    \/ CallAskProjectDocument
    \/ CallGetStoreInfo
    \/ CallAskCodePattern
    \/ CallTellCodePattern(Requests, MaxServedExperiences)
    \/ \E i \in 1..MaxInFlight, out \in Outs : ToolReturn(i, out)
    \/ \E i \in 1..MaxInFlight : QueryStaysSilent(i)

Spec == Init /\ [][Next]_vars

(***************************************************************************)
(* The tools of a server started against a backend that already holds the  *)
(* indexed store (startup reuses it, or finds no document source), with an *)
(* Experience Store that grows past the limit of a search.                 *)
(***************************************************************************)
ToolConfigs ==
    { Cfg(NoStr, NoStr, NoStr, FALSE, TRUE),
      Cfg(GoodUrl, NoStr, NoStr, FALSE, TRUE) }
\* the reports the tools are told: a success and a failure
ReportRequests == {"success_yaml", "failed_json"}
InitTools ==
    /\ Init
    /\ config \in ToolConfigs
    /\ stores = <<DetermineStoreName(config).name>>
NextTools ==
    \/ \E ok \in BOOLEAN : InitExperienceStore(ok)
    \/ CheckDocumentSource
    \/ \E ok \in BOOLEAN : InitRagClient(ok)
    \/ StoreNameStep
    \/ \E ok \in BOOLEAN : CheckStoreExists(ok)
    \/ Shutdown
    \/ ShutdownByException
    \/ CallAskProjectDocument
    \/ CallGetStoreInfo
    \/ CallAskCodePattern
    \/ CallTellCodePattern(ReportRequests, MaxExperiences)
    \/ \E i \in 1..MaxInFlight, out \in Outs : ToolReturn(i, out)
    \/ \E i \in 1..MaxInFlight : QueryStaysSilent(i)
SpecTools == InitTools /\ [][NextTools]_vars

(***************************************************************************)
(* Properties of startup and of the document tools.                        *)
(***************************************************************************)
\* how many of `calls` are calls of fn
RECURSIVE CountCalls(_, _)
CountCalls(calls, fn) ==
    IF calls = <<>> THEN 0
    ELSE (IF Head(calls).fn = fn THEN 1 ELSE 0) + CountCalls(Tail(calls), fn)
\* lifespan has logged the call `c`
StartupLogged(c) == \E i \in 1..Len(startup_calls) : startup_calls[i] = c
LoaderFunctions ==
    {"init_store_from_repo", "init_store_from_local", "get_or_create_store",
     "mkdtemp", "git_clone", "collect_files", "upload_documents", "remove_temp_dir"}

\* C1: when the existence check finds a store of the derived display name and
\* force_reindex is false, startup adopts that store's id and display name as
\* the document store handle, and it calls neither the document loader nor
\* get_or_create_store nor upload_documents.
C1_ReuseSkipsLoader ==
    (StartupLogged(StartupCall("check_store_exists", "found")) /\ ~config.rag_force_reindex)
    => /\ store_id \in 1..Len(stores)
       /\ stores[store_id] = display_name
       /\ store_name = display_name
       /\ \A i \in 1..Len(startup_calls) : startup_calls[i].fn \notin LoaderFunctions
C1_Witness ==
    /\ pc = "ready_327"
    /\ StartupLogged(StartupCall("check_store_exists", "found"))
    /\ ~config.rag_force_reindex
    /\ store_id = 1
    /\ store_name = display_name

\* C2 (as stated): startup lets no exception escape and yields to the server
\* exactly once on every path.
C2_StartupAlwaysReady ==
    /\ pc # "raised"
    /\ yields <= 1
    /\ (pc \in ReadyStates \cup {"stopped"}) => yields = 1

\* C3 (as stated): no exception leaves a tool operation.
C3_NoExceptionEscapes == last.resp.kind # "exception"

\* C4 (as stated): the Experience Store connection is attempted first on every
\* path; when it fails the handle stays unset, startup still goes on to Ready,
\* and ask_code_pattern and tell_code_pattern answer 'not available' without a
\* backend call.
C4_ExperienceStoreFailure ==
    /\ pc # "start" => /\ startup_calls # <<>>
                       /\ startup_calls[1].fn = "ExperienceStore"
    /\ StartupLogged(StartupCall("ExperienceStore", "raise"))
       => /\ ~experience_store
          /\ pc # "raised"
          /\ last.op \in {"ask_code_pattern", "tell_code_pattern"}
             => last.resp.kind = "not_available" /\ last.calls = <<>>

\* the tool calls of `op` that are suspended at their await
InFlight(op) == {i \in 1..Len(in_flight) : in_flight[i].op = op}

\* C5: with neither a repository URL nor a local docs path configured, every
\* ask_project_document call answers the fixed 'not initialized' text and
\* makes no call to the generative client: none has answered otherwise and
\* none waits for the generative client.
C5_UnconfiguredDocStore ==
    (/\ ~IsSet(config.rag_repo_url)
     /\ ~IsSet(config.rag_local_docs_path))
    => /\ InFlight("ask_project_document") = {}
       /\ last.op = "ask_project_document"
          => last.resp.kind = "not_initialized" /\ last.calls = <<>>
C5_Witness ==
    /\ ~IsSet(config.rag_repo_url)
    /\ ~IsSet(config.rag_local_docs_path)
    /\ pc = "ready_254"
    /\ experience_store
    /\ last.op = "ask_project_document"
    /\ last.resp.kind = "not_initialized"


(***************************************************************************)
(* Properties of the code tools.                                           *)
(***************************************************************************)
\* content.result of the request named req, PNone when it has none
ReportedResult(req) ==
    LET data == ParsedRequests[req] IN
    IF ~IsDict(data) \/ ~IsDict(RequestOf(data)) THEN PNone
    ELSE DictGet(DictGet(RequestOf(data), "content", EmptyDict), "result", PNone)
ToldWith(result) ==
    /\ last.op = "tell_code_pattern"
    /\ last.req \in Requests
    /\ ReportedResult(last.req) = PStr(result)
NoCallsOf(fns) == \A i \in 1..Len(last.calls) : last.calls[i].fn \notin fns
\* the suspended tell_code_pattern calls that report `result`
InFlightTold(result) ==
    {i \in InFlight("tell_code_pattern") : ReportedResult(in_flight[i].req) = PStr(result)}

\* C6 (as stated): a SUCCESS report made while the Experience Store handle is
\* set calls add_experience exactly once and never search_experience or
\* generate_content.
C6_SuccessAddsOnce_Stated ==
    (ToldWith("SUCCESS") /\ experience_store)
    => /\ CountCalls(last.calls, "add_experience") = 1
       /\ NoCallsOf({"search_experience", "generate_content"})
\* C6: a SUCCESS report made while both the Experience Store handle and the
\* generative client handle are set calls add_experience exactly once and
\* never search_experience or generate_content; no SUCCESS report waits for
\* a backend call.
C6_SuccessAddsOnce ==
    /\ InFlightTold("SUCCESS") = {}
    /\ (ToldWith("SUCCESS") /\ experience_store /\ rag_client)
       => /\ CountCalls(last.calls, "add_experience") = 1
          /\ NoCallsOf({"search_experience", "generate_content"})
C6_Witness ==
    /\ ToldWith("SUCCESS")
    /\ experience_store /\ rag_client
    /\ last.calls = <<Call("add_experience", "ok")>>
    /\ last.resp.kind = "learned_success"
    /\ Len(experiences) = last.resp.id
    /\ in_flight # <<>>

\* the record the latest call's response names is the one that call reported
NamesOwnRecord ==
    /\ last.resp.id \in 1..Len(experiences)
    /\ experiences[last.resp.id] = ExperienceProperties(ParsedRequests[last.req])
\* what C7 says of a FAILED report's calls and response, once add_experience
\* has been called
FailedReportAdvice ==
    /\ Len(last.calls) >= 2
    /\ last.calls[2].fn = "search_experience"
    /\ last.calls[2].limit = 3
    /\ Len(last.calls[2].hits) <= 3
    /\ CountCalls(last.calls, "add_experience") = 1
    /\ CountCalls(last.calls, "search_experience") = 1
    /\ last.calls[2].outcome = "ok"
       => LET hits == last.calls[2].hits IN
          IF \A i \in 1..Len(hits) : experiences[hits[i]].success # PBool("True")
          THEN /\ last.resp.kind = "learned_no_precedent"
               /\ NamesOwnRecord
               /\ NoCallsOf({"generate_content"})
          ELSE /\ Len(last.calls) = 3
               /\ last.calls[3].fn = "generate_content"
               /\ last.resp.kind = "learned_advice"
               /\ NamesOwnRecord
\* C7 (as stated): every FAILED report calls add_experience first and
\* search_experience (limit 3) after it; without a successful entry among the
\* hits the response is the confirmation with the 'no precedent' note and no
\* generate_content call; otherwise generate_content is called exactly once
\* and its text is appended.
C7_FailedReport_Stated ==
    ToldWith("FAILED")
    => /\ last.calls # <<>>
       /\ last.calls[1].fn = "add_experience"
       /\ FailedReportAdvice

\* C8 (as stated): ask_code_pattern never calls add_experience; with both
\* handles set and a request that parses to a mapping it calls
\* search_experience once with limit 3, then generate_content once, and
\* returns the generated text.
C8_AskReadsOnly_Stated ==
    last.op = "ask_code_pattern"
    => /\ NoCallsOf({"add_experience"})
       /\ (experience_store /\ rag_client /\ IsDict(ParsedRequests[last.req]))
          => /\ Len(last.calls) = 2
             /\ last.calls[1].fn = "search_experience"
             /\ last.calls[1].limit = 3
             /\ last.calls[2].fn = "generate_content"
             /\ last.resp.kind = "generated"

\* the context of the prompt `gen` holds, for every record the search
\* `search` returned, that record's pattern and code_result
EmbedsHits(search, gen) ==
    LET hits == search.hits
        context == gen.prompt.context
    IN  /\ Len(context) = Len(hits)
        /\ Len(hits) = (IF search.size <= 3 THEN search.size ELSE 3)
        /\ \A i \in 1..Len(hits) :
              /\ context[i].pattern = experiences[hits[i]].pattern
              /\ context[i].code_result = experiences[hits[i]].code_result
\* C9: when ask_code_pattern's search returns, generate_content is called with
\* a prompt whose context holds, for every record the search returned, that
\* record's pattern and code_result; so after a SUCCESS report into an empty
\* store the prompt embeds the reported pattern and code.
C9_PromptEmbedsStoredRecord ==
    /\ \A n \in InFlight("ask_code_pattern") :
           /\ Len(in_flight[n].calls) = 2
           /\ in_flight[n].calls[2].fn = "generate_content"
           /\ EmbedsHits(in_flight[n].calls[1], in_flight[n].calls[2])
    /\ (/\ last.op = "ask_code_pattern"
        /\ last.calls # <<>>
        /\ last.calls[1].outcome = "ok")
       => /\ Len(last.calls) = 2
          /\ last.calls[2].fn = "generate_content"
          /\ EmbedsHits(last.calls[1], last.calls[2])
C9_Witness ==
    /\ last.op = "ask_code_pattern"
    /\ last.req = "ask_yaml"
    /\ last.resp.kind = "generated"
    /\ last.calls[1].size = 1
    /\ experiences[1].success = PBool("True")
    /\ last.calls[2].prompt.context[1].pattern = PStr("Singleton")
    /\ last.calls[2].prompt.context[1].code_result =
           PText(JsonDumps(PDict(<<KV("success", PStr("classDB"))>>)))


(***************************************************************************)
(* _parse_code_request on the encodings of one payload.                    *)
(***************************************************************************)
\* the scalar values the payloads carry
ParseScalars ==
    {PStr("Python"), PStr("yes"), PStr("150"), PStr(""), PInt("150"), PFloat("1.5"),
     PFloat("1e16"), PBool("True"), PNone}
\* payloads that are no mapping: a number and a word
ParseNonMappings == {PInt("150"), PStr("Python")}
ParsePayloads ==
    { PDict(<<KV("request", PDict(<<KV("language", x)>>))>>) : x \in ParseScalars }
    \cup { PDict(<<KV("request", PDict(<<KV("language", PStr("Python")),
                                     KV("metrics", PDict(<<KV("execution_time_ms", x)>>))>>))>>) :
              x \in ParseScalars }
    \cup { PDict(<<KV("framework", PStr("FastAPI")), KV("language", PStr("Python"))>>) }
    \cup ParseNonMappings
\* request texts no encoder wrote: a last line left open (a flat, a nested and
\* a flow value), a comma before the closing brace, keys that are no strings,
\* a bare number, and a key of a flow mapping with its ":" on the next line
\* (quoted, as JSON reads it, and plain)
RawTexts ==
    {<<Plain("request"), Tok(":"), Plain("Python")>>,
     <<Plain("request"), Tok(":"), Tok("in"), Plain("language"), Tok(":"), Plain("Python")>>,
     <<Plain("request"), Tok(":"), Tok("{"), Plain("language"), Tok(":"), Plain("Python"),
       Tok("}")>>,
     <<Tok("{"), Quoted("dq", PStr("request")), Tok(":"), Plain("150"), Tok(","), Tok("}")>>,
     <<Plain("150"), Tok(":"), Plain("x"), Tok("nl"), Plain("yes"), Tok(":"), Plain("y"),
       Tok("nl"), Plain("null"), Tok(":"), Plain("z"), Tok("nl")>>,
     <<Plain("150")>>,
     <<Tok("{"), Quoted("dq", PStr("request")), Tok("nl"), Tok(":"), Plain("150"), Tok("}")>>,
     <<Tok("{"), Plain("request"), Tok("nl"), Tok(":"), Plain("x"), Tok("}")>>}

\* the three encodings of a payload: format_toon's yaml.dump, json.dumps, and
\* json.dumps of the JSON text
CompactText(payload) == YamlDump(payload)
JsonText(payload) == JsonDumps(payload)
DoubleEncodedText(payload) == JsonDumps(PText(JsonDumps(payload)))

\* the server is not started: only the unit under study moves
ServerIdle ==
    /\ config = Cfg(NoStr, NoStr, NoStr, FALSE, TRUE)
    /\ stores = <<>>
    /\ pc = "start"
    /\ display_name = NoStr
    /\ loading = NoLoading
    /\ experience_store = FALSE
    /\ rag_client = FALSE
    /\ store_name = NoStr
    /\ store_id = 0
    /\ experiences = <<>>
    /\ startup_calls = <<>>
    /\ yields = 0
    /\ closes = 0
    /\ in_flight = <<>>
    /\ last = NoCall
    /\ loading = NoLoading

InitParse ==
    /\ ServerIdle
    /\ gemini = NoClient
    /\ loop = NoLoop
    /\ naming = NoNaming
    /\ auth = NoAuth
    /\ uploading = NoUpload
    /\ environ = NoEnviron
    /\ \E p \in ParsePayloads, t \in RawTexts :
          parsing = [NoParsing EXCEPT !.payload = p, !.text = t]

server_vars == <<config, stores, pc, display_name, loading, experience_store, rag_client,
                 store_name, store_id, experiences, startup_calls, yields, closes,
                 in_flight, last>>

ParseCompact ==
    /\ parsing.compact = NotParsed
    /\ parsing' = [parsing EXCEPT !.compact = ParseWithAttempts(CompactText(parsing.payload))]
    /\ UNCHANGED <<server_vars, auth, uploading, environ, gemini, loop, naming>>
ParseJson ==
    /\ parsing.json = NotParsed
    /\ parsing' = [parsing EXCEPT !.json = ParseWithAttempts(JsonText(parsing.payload))]
    /\ UNCHANGED <<server_vars, auth, uploading, environ, gemini, loop, naming>>
ParseDoubleEncoded ==
    /\ parsing.double = NotParsed
    /\ parsing' = [parsing EXCEPT
                      !.double = ParseWithAttempts(DoubleEncodedText(parsing.payload))]
    /\ UNCHANGED <<server_vars, auth, uploading, environ, gemini, loop, naming>>
\* _parse_code_request on a text as the caller wrote it
ParseRaw ==
    /\ parsing.raw = NotParsed
    /\ parsing' = [parsing EXCEPT !.raw = ParseWithAttempts(parsing.text)]
    /\ UNCHANGED <<server_vars, auth, uploading, environ, gemini, loop, naming>>

NextParse ==
    \/ ParseCompact
    \/ ParseJson
    \/ ParseDoubleEncoded
    \/ ParseRaw

SpecParse == InitParse /\ [][NextParse]_vars

\* C10 (as stated): the three encodings of one payload parse to the same
\* mapping; the YAML attempt runs first and the JSON attempts run only when
\* it did not yield a mapping.
C10_SameMapping_Stated ==
    IsDict(parsing.payload)
    => /\ (/\ parsing.compact # NotParsed
            /\ parsing.json # NotParsed
            /\ parsing.double # NotParsed)
           => /\ PyEq(parsing.compact.data, parsing.json.data)
              /\ PyEq(parsing.json.data, parsing.double.data)
       /\ parsing.compact # NotParsed => parsing.compact.attempts = <<"yaml">>
       /\ parsing.json # NotParsed => parsing.json.attempts = <<"yaml">>
       /\ parsing.double # NotParsed
           => /\ parsing.double.attempts = <<"yaml", "json", "json">>
              /\ ~IsDict(YamlLoad(DoubleEncodedText(parsing.payload)).val)

\* C11 (as stated): _parse_code_request returns a mapping or the failure
\* value None, never a list, a number or a string.
C11_MappingOrNone_Stated ==
    \A r \in {parsing.compact, parsing.json, parsing.double, parsing.raw} :
        IsDict(r.data) \/ r.data = PNone


(***************************************************************************)
(* GeminiClient.get_or_create_store and delete_store on one client, whose  *)
(* calls are tasks of one event loop: a call runs to its next await, the   *)
(* awaited job runs on a thread of the executor, and the call is resumed.  *)
(***************************************************************************)
\* the display names asked for
StoreNames == {<<"a">>, <<"b">>}
\* the most calls made of one client, suspended ones included
MaxStoreCalls == 3

InitStore ==
    /\ ServerIdle
    /\ parsing = NoParsing
    /\ loop = NoLoop
    /\ naming = NoNaming
    /\ auth = NoAuth
    /\ uploading = NoUpload
    /\ environ = NoEnviron
    /\ \E ss \in {<<>>, <<<<"a">>>>, <<<<"b">>, <<"a">>, <<"a">>>>} :
          gemini = [NoClient EXCEPT !.stores = ss]

\* a call of the client that has returned: what was asked, the id returned
\* (for delete_store the id given), whether the call created a store,
\* whether it raised, and whether another call of the client was running at
\* some time between its start and its return
StoreCall(op, name, id, created, raised, overlapped) ==
    [op |-> op, name |-> name, id |-> id, created |-> created, raised |-> raised,
     overlapped |-> overlapped]
\* a call of the client suspended at an await of run_in_executor: the phase
\* names the job it waits for and whether the executor has run it
StoreTask(op, name, id, phase) ==
    [op |-> op, name |-> name, id |-> id, phase |-> phase, created |-> FALSE,
     overlapped |-> FALSE]
\* the client with one more call started; the call runs up to its first await
WithStoreTask(task) ==
    [gemini EXCEPT !.pending =
        Append([t \in 1..Len(gemini.pending) |->
                   [gemini.pending[t] EXCEPT !.overlapped = TRUE]],
               [task EXCEPT !.overlapped = gemini.pending # <<>>])]
\* the suspended calls without call t
OtherStoreTasks(t) ==
    SubSeq(gemini.pending, 1, t - 1) \o SubSeq(gemini.pending, t + 1, Len(gemini.pending))
\* call t returns (or raises): it leaves the suspended calls and is recorded
StoreCallReturned(t, memo, raised) ==
    LET task == gemini.pending[t] IN
    [gemini EXCEPT !.file_search_store_name = memo,
                   !.pending = OtherStoreTasks(t),
                   !.calls = Append(gemini.calls,
                                    StoreCall(task.op, task.name, task.id, task.created,
                                              raised, task.overlapped))]

\* client.get_or_create_store(name) is called and runs to the await of
\* check_store_exists (line 104)
BeginGetOrCreateStore(name) ==
    /\ Len(gemini.calls) + Len(gemini.pending) < MaxStoreCalls
    /\ gemini' = WithStoreTask(StoreTask("get_or_create_store", name, 0, "finding"))
    /\ UNCHANGED <<server_vars, auth, uploading, environ, parsing, loop, naming>>

\* client.delete_store(store_name=id) is called for a store the backend
\* holds and runs to its await (lines 229-233)
BeginDeleteStore(id) ==
    /\ Len(gemini.calls) + Len(gemini.pending) < MaxStoreCalls
    /\ id \in 1..Len(gemini.stores)
    /\ gemini.stores[id] # <<>>
    /\ gemini' = WithStoreTask(StoreTask("delete_store", gemini.stores[id], id, "deleting"))
    /\ UNCHANGED <<server_vars, auth, uploading, environ, parsing, loop, naming>>

\* a thread of the executor runs the job call t waits for: _sync_find_store,
\* _sync_create_store or _sync_delete_store (which raises when the store is
\* no longer there)
StoreExecutorRuns(t) ==
    /\ t \in 1..Len(gemini.pending)
    /\ gemini.pending[t].phase \in {"finding", "creating", "deleting"}
    /\ LET task == gemini.pending[t] IN
       gemini' =
           CASE task.phase = "finding" ->
                    [gemini EXCEPT !.pending[t].phase = "found",
                                   !.pending[t].id = FindStore(gemini.stores, task.name)]
             [] task.phase = "creating" ->
                    [gemini EXCEPT !.stores = Append(gemini.stores, task.name),
                                   !.pending[t].phase = "created",
                                   !.pending[t].created = TRUE,
                                   !.pending[t].id = Len(gemini.stores) + 1]
             [] OTHER ->
                    IF gemini.stores[task.id] # <<>>
                    THEN [gemini EXCEPT !.stores[task.id] = <<>>,
                                        !.pending[t].phase = "deleted"]
                    ELSE [gemini EXCEPT !.pending[t].phase = "delete_raised"]
    /\ UNCHANGED <<server_vars, auth, uploading, environ, parsing, loop, naming>>

\* the event loop resumes call t after its await.  get_or_create_store: a
\* store was found, the memo is set and the id returned (lines 105-107);
\* none was found, the create is awaited (110-113); after the create the
\* memo is set and the id returned (114-115).  delete_store: the memo is
\* cleared when it names the deleted store (235-238); an exception of the
\* job leaves the call at the await
StoreCallResumes(t) ==
    /\ t \in 1..Len(gemini.pending)
    /\ gemini.pending[t].phase \in {"found", "created", "deleted", "delete_raised"}
    /\ LET task == gemini.pending[t]
           memo == gemini.file_search_store_name
       IN  gemini' =
               CASE task.phase = "found" /\ task.id = 0 ->
                        [gemini EXCEPT !.pending[t].phase = "creating"]
                 [] task.phase \in {"found", "created"} /\ task.id # 0 ->
                        StoreCallReturned(t, task.id, FALSE)
                 [] task.phase = "deleted" ->
                        StoreCallReturned(t, IF memo = task.id THEN 0 ELSE memo, FALSE)
                 [] OTHER -> StoreCallReturned(t, memo, TRUE)
    /\ UNCHANGED <<server_vars, auth, uploading, environ, parsing, loop, naming>>

NextStore ==
    \/ \E name \in StoreNames : BeginGetOrCreateStore(name)
    \/ \E id \in 1..(MaxStoreCalls + 3) : BeginDeleteStore(id)
    \/ \E t \in 1..MaxStoreCalls : StoreExecutorRuns(t)
    \/ \E t \in 1..MaxStoreCalls : StoreCallResumes(t)

SpecStore == InitStore /\ [][NextStore]_vars

\* C12: two get_or_create_store calls with the same display name, made one
\* after the other with no delete in between, return the same id, and the
\* second creates no store, so the two together create at most one; when a
\* call returns, the memoized file_search_store_name is the id it returned.
\* (The calls the claim speaks of are made in sequence: none of the two runs
\* while another call of the client is suspended.  Two calls that overlap on
\* a backend without the store both list before either creates, and create
\* two stores.)
C12_GetOrCreateIdempotent ==
    /\ \A i \in 1..Len(gemini.calls) : \A j \in (i + 1)..Len(gemini.calls) :
          (/\ gemini.calls[i].op = "get_or_create_store"
           /\ gemini.calls[j].op = "get_or_create_store"
           /\ gemini.calls[i].name = gemini.calls[j].name
           /\ ~gemini.calls[i].overlapped
           /\ ~gemini.calls[j].overlapped
           /\ \A k \in i..j : gemini.calls[k].op # "delete_store")
          => /\ gemini.calls[j].id = gemini.calls[i].id
             /\ gemini.calls[i].id # 0
             /\ ~gemini.calls[j].created
    /\ (gemini.calls # <<>>
        /\ gemini.calls[Len(gemini.calls)].op = "get_or_create_store")
       => gemini.file_search_store_name = gemini.calls[Len(gemini.calls)].id
C12_Witness ==
    /\ gemini.pending = <<>>
    /\ gemini.stores = <<<<"b">>>>
    /\ Len(gemini.calls) = 2
    /\ gemini.calls[1] = StoreCall("get_or_create_store", <<"b">>, 1, TRUE, FALSE, FALSE)
    /\ gemini.calls[2] = StoreCall("get_or_create_store", <<"b">>, 1, FALSE, FALSE, FALSE)
    /\ gemini.file_search_store_name = 1


(***************************************************************************)
(* Properties of shutdown and of the experience records.                   *)
(***************************************************************************)
\* C13 (as stated): when the server stops, close() has been called exactly
\* once on every startup path that connected the Experience Store, and is
\* not called before.
C13_ClosedOnShutdown_Stated ==
    /\ (pc = "stopped" /\ experience_store) => closes = 1
    /\ pc # "stopped" => closes = 0


\* C14 (as stated): when the generative backend does not answer before the
\* timeout expires, ask_project_document returns the fixed 'timed out'
\* message instead of waiting on: no call still waits for a backend that has
\* been silent for that long.
C14_AnswerBounded_Stated ==
    \A n \in InFlight("ask_project_document") : ~in_flight[n].overdue


(***************************************************************************)
(* Concurrent tool calls on the server's event loop.  A tool call is a     *)
(* task; it runs on the loop's thread until it awaits, and a backend call  *)
(* made without a worker keeps the thread until the backend has answered.  *)
(***************************************************************************)
\* how many tool calls are served at once
MaxTasks == 2
\* the tool calls: tell_code_pattern by the kind of report
LoopOps == {"ask_project_document", "ask_code_pattern", "tell_success", "tell_failed"}
\* the backend calls a tool call makes when every one of them succeeds;
\* tell_code_pattern with a FAILED report asks generate_content only when
\* its search found a record of a success (`if context_str:`, main.py 573)
BackendSteps(op, precedent) ==
    CASE op = "ask_project_document" -> <<"query_docs">>
      [] op = "ask_code_pattern" -> <<"search_experience", "generate_content">>
      [] op = "tell_success" -> <<"add_experience">>
      [] OTHER -> IF precedent
                  THEN <<"add_experience", "search_experience", "generate_content">>
                  ELSE <<"add_experience", "search_experience">>
\* "worker": run_in_executor and await (gemini.py); "inline": a synchronous
\* call on the loop's thread (ExperienceStore's methods, embedding included)
Dispatch(fn) ==
    IF fn \in {"query_docs", "generate_content"} THEN "worker" ELSE "inline"

\* a tool call: the backend calls answered so far and whether its search
\* found a record of a success
Task(op) == [op |-> op, done |-> 0, phase |-> "ready", precedent |-> FALSE]
InitLoop ==
    /\ ServerIdle
    /\ parsing = NoParsing
    /\ gemini = NoClient
    /\ naming = NoNaming
    /\ auth = NoAuth
    /\ uploading = NoUpload
    /\ environ = NoEnviron
    /\ \E ops \in [1..MaxTasks -> LoopOps] : \E stored \in BOOLEAN :
          loop = [tasks |-> [t \in 1..MaxTasks |-> Task(ops[t])], holder |-> 0,
                  success_stored |-> stored]

\* where a tool call that has `done` answered backend calls behind it stops
\* next when it runs on: it returns, or it makes its next backend call,
\* which keeps the loop's thread when it is made inline
Advance(op, done, precedent) ==
    LET Stop(steps) ==
            IF done = Len(steps) THEN [phase |-> "returned", inline |-> FALSE]
            ELSE [phase |-> "waiting",
                  inline |-> Dispatch(steps[done + 1]) = "inline"]
    IN  Stop(BackendSteps(op, precedent))

\* the loop runs task t up to its next backend call, or to its return
RunTask(t) ==
    /\ loop.holder = 0
    /\ loop.tasks[t].phase = "ready"
    /\ LET Run(next) ==
               loop' = [loop EXCEPT !.tasks[t].phase = next.phase,
                                    !.holder = IF next.inline THEN t ELSE 0]
       IN  Run(Advance(loop.tasks[t].op, loop.tasks[t].done, loop.tasks[t].precedent))
    /\ UNCHANGED <<server_vars, auth, uploading, environ, parsing, gemini, naming>>

\* the backend answers the call task t is waiting for.  An answered
\* add_experience of a success report leaves a record of a success; the
\* search of a FAILED report finds one (hit) only when the store holds one,
\* and then not always (the search returns the three nearest records).
\* The answer of a worker makes the task ready for the loop to resume; the
\* answer of an inline call is the return of a function the task called, so
\* the task runs on in the same step, up to its next backend call or to its
\* return, without the loop running anything in between
BackendAnswers(t, hit) ==
    /\ loop.tasks[t].phase = "waiting"
    /\ LET task == loop.tasks[t]
           fn == BackendSteps(task.op, task.precedent)[task.done + 1]
           Answered(inline, next) ==
               loop' = [loop EXCEPT
                           !.tasks[t].phase = IF inline THEN next.phase ELSE "ready",
                           !.tasks[t].done = @ + 1,
                           !.tasks[t].precedent = @ \/ hit,
                           !.holder = IF ~inline THEN @
                                      ELSE IF next.inline THEN t ELSE 0,
                           !.success_stored =
                               @ \/ (task.op = "tell_success" /\ fn = "add_experience")]
       IN  /\ hit => /\ task.op = "tell_failed"
                     /\ fn = "search_experience"
                     /\ loop.success_stored
           /\ Answered(Dispatch(fn) = "inline",
                       Advance(task.op, task.done + 1, task.precedent \/ hit))
    /\ UNCHANGED <<server_vars, auth, uploading, environ, parsing, gemini, naming>>

NextLoop ==
    \/ \E t \in 1..MaxTasks : RunTask(t)
    \/ \E t \in 1..MaxTasks : \E hit \in BOOLEAN : BackendAnswers(t, hit)

SpecLoop == InitLoop /\ [][NextLoop]_vars

\* C15 (as stated): every backend call of a tool call is awaited off the
\* loop's thread, so while one tool call waits for a backend the loop can run
\* another.
C15_LoopStaysFree_Stated ==
    \A t \in 1..Len(loop.tasks) : loop.tasks[t].phase = "waiting" => loop.holder = 0


\* a step that leaves the four Server State handles as they are
HandlesKept ==
    /\ experience_store' = experience_store
    /\ rag_client' = rag_client
    /\ store_name' = store_name
    /\ store_id' = store_id
\* C16: once the server is Ready no step changes a Server State handle
\* (rag_client, experience_store, store_name, store_id): tool calls, in any
\* order, number and interleaving, and shutdown leave them as startup set
\* them.
C16_HandlesReadOnly == [][(pc \in ReadyStates) => HandlesKept]_vars
\* a report has been recorded while another call waited for its backend
C16_Witness ==
    /\ pc = "ready_327"
    /\ experience_store /\ rag_client
    /\ store_id # 0 /\ store_name # NoStr
    /\ last.op = "tell_code_pattern"
    /\ last.resp.kind = "learned_success"
    /\ in_flight # <<>>


(***************************************************************************)
(* ExperienceStore.add_experience on its own.                              *)
(***************************************************************************)
\* a request with the given content.result
PayloadResult(result) ==
    PDict(<<KV("request", PDict(<<KV("language", PStr("Python")),
                              KV("content", PDict(<<KV("result", result)>>))>>))>>)
\* the mappings add_experience is given: the reports of the scenarios, other
\* and missing result values, and mappings without content or request
AddPayloads ==
    {PayloadSuccess, PayloadFailed, PayloadAsk, EmptyDict,
     PDict(<<KV("request", PDict(<<KV("language", PStr("Python"))>>))>>),
     PDict(<<KV("language", PStr("Python"))>>)}
    \cup { PayloadResult(r) : r \in {PStr("SUCCESS"), PStr("success"), PStr(""),
                                     PBool("True"), PInt("150"), PNone} }

InitAdd ==
    /\ ServerIdle
    /\ parsing = NoParsing
    /\ gemini = NoClient
    /\ loop = NoLoop
    /\ naming = NoNaming
    /\ auth = NoAuth
    /\ uploading = NoUpload
    /\ environ = NoEnviron

\* experience_store.add_experience(data) returns: the object is inserted
AddExperience(data) ==
    /\ Len(experiences) < MaxExperiences
    /\ ~AddExperienceRaises(data)
    /\ experiences' = Append(experiences, ExperienceProperties(data))
    /\ UNCHANGED <<config, stores, pc, display_name, loading, experience_store, rag_client,
                   store_name, store_id, startup_calls, yields, closes, in_flight, last>>
    /\ UNCHANGED unit_vars

NextAdd == \E data \in AddPayloads : AddExperience(data)

SpecAdd == InitAdd /\ [][NextAdd]_vars

\* the request.content.result a stored record was reported with, read back
\* from the record's full_json; PNone when a section or the result is missing
StoredResult(props) ==
    LET data == JsonLoads(Lex(props.full_json)).val IN
    DictGet(DictGet(DictGet(data, "request", EmptyDict), "content", EmptyDict),
            "result", PNone)

\* C17: every inserted record has success = true exactly when the reported
\* request.content.result is "SUCCESS"; any other value and a missing
\* result, content or request are stored with success = false.
C17_SuccessFlag ==
    \A i \in 1..Len(experiences) :
        /\ experiences[i].success \in {PBool("True"), PBool("False")}
        /\ experiences[i].success = PBool("True")
           <=> StoredResult(experiences[i]) = PStr("SUCCESS")
C17_Witness ==
    /\ Len(experiences) = 2
    /\ StoredResult(experiences[1]) = PStr("SUCCESS")
    /\ experiences[1].success = PBool("True")
    /\ experiences[2].full_json = PText(JsonDumps(EmptyDict))
    /\ experiences[2].success = PBool("False")


(***************************************************************************)
(* Properties of the document loaders and of the store names.              *)
(***************************************************************************)
\* how many entries of lifespan's log are calls of fn
StartupCount(fn) ==
    Cardinality({i \in 1..Len(startup_calls) : startup_calls[i].fn = fn})
\* how init_store_from_repo's run ended: the outcome of its last step
RepoLoaderEndings ==
    {StartupCall("git_clone", "timeout"), StartupCall("git_clone", "failed"),
     StartupCall("collect_files", "no_docs_path"), StartupCall("collect_files", "no_files"),
     StartupCall("upload_documents", "raise"), StartupCall("upload_documents", "ok"),
     StartupCall("git_clone", "not_started"), StartupCall("raise", "CancelledError")}

\* C18: on every exit path of init_store_from_repo (clone timeout, clone
\* failure, docs path missing, no matching files, upload failure, success)
\* the temporary directory it created has been removed when it returns or
\* raises; so it is when the clone cannot be started and when startup is
\* cancelled.
C18_TempDirRemoved ==
    /\ pc \notin LoaderStates
       => /\ ~loading.temp_dir
          /\ StartupCount("remove_temp_dir") = StartupCount("mkdtemp")
    /\ \A e \in RepoLoaderEndings :
          (StartupLogged(e) /\ StartupLogged(StartupCall("mkdtemp", "ok")))
          => startup_calls[Len(startup_calls)] = StartupCall("remove_temp_dir", "ok")
C18_Witness ==
    /\ pc = "ready_327"
    /\ StartupLogged(StartupCall("mkdtemp", "ok"))
    /\ StartupLogged(StartupCall("upload_documents", "raise"))
    /\ startup_calls[Len(startup_calls)] = StartupCall("remove_temp_dir", "ok")
    /\ store_id = 0


(***************************************************************************)
(* The store name derivations on their own: a repository URL or a local    *)
(* path is chosen, then the derivation is applied to it.                   *)
(***************************************************************************)
UrlPrefixes ==
    {<<"h", "t", "t", "p", ":", "/", "/", "g", "/">>,
     <<"h", "t", "t", "p", ":", "/", "/", "[", "g", "/">>,
     <<"h", "t", "t", "p", ":", "/", "/", "[", "g", "]", "/">>,
     <<"h", "t", "t", "p", ":", "/", "/", "[", ":", ":", "1", "]", "/">>,
     <<" ", "h", "t", "\t", "t", "p", ":", "/", "/", "g", "/">>,
     <<"x", ":", "/", "/", "g", "/">>,
     Str_gitat \o <<"g", ":">>,
     <<>>}
UrlPaths ==
    {<<>>, <<"A", "/", "b">>, <<"a", "/", "B", "_", "c">>, <<"-", "/", "-">>,
     <<"a", "?", "x">>, <<"a", "#", "b">>, <<"A", ".", "b">>, <<"a", ";", "b">>,
     <<"a", "/", "b", ";", "c">>, <<"a", ";", "b", "/", "c">>}
UrlSuffixes == {<<>>, Str_git, <<"/">>, Str_git \o <<"/">>}
RepoUrls == {p \o q \o r : p \in UrlPrefixes, q \in UrlPaths, r \in UrlSuffixes}
PathParents ==
    {<<"/">>, <<"/", "p", "_", "Q", "/">>, <<"/", "@", "/">>,
     <<"/", "a", "/", ".", ".", "/">>, <<"/", "d", "o", "c", "s", "/">>,
     <<>>, <<".", "/">>, <<".", ".", "/">>, <<"x", "/">>}
PathFinals ==
    {Str_docs, <<"D", "o", "c", "s">>, Str_doc, Str_documentation,
     <<"W", "I", "K", "I">>, <<"s", "r", "c">>, <<"x", "_", "Y">>, <<>>}
PathSuffixes == {<<>>, <<"/">>}
\* the working directories the derivation is called in
WorkingDirectories == {<<"/">>, <<"/", "w", "/", "V", "_", "v">>, <<"/", "D", "o", "c", "s">>}
LocalPaths == {p \o q \o r : p \in PathParents, q \in PathFinals, r \in PathSuffixes}

InitNames ==
    /\ ServerIdle
    /\ parsing = NoParsing
    /\ gemini = NoClient
    /\ loop = NoLoop
    /\ naming \in {[NoNaming EXCEPT !.kind = "url", !.input = u] : u \in RepoUrls}
             \cup {[NoNaming EXCEPT !.kind = "path", !.cwd = d, !.input = p] :
                       d \in WorkingDirectories, p \in LocalPaths}
    /\ auth = NoAuth
    /\ uploading = NoUpload
    /\ environ = NoEnviron

\* generate_store_name_from_url(naming.input)
NameFromUrl ==
    /\ naming.kind = "url"
    /\ LET r == GenerateStoreNameFromUrl(naming.input) IN
       naming' = [kind |-> "url_named", cwd |-> <<>>, input |-> naming.input,
                  raises |-> r.raises, name |-> IF r.raises THEN <<>> ELSE r.name]
    /\ UNCHANGED <<server_vars, auth, uploading, environ, parsing, gemini, loop>>

\* generate_store_name_from_path(naming.input) with the working directory naming.cwd
NameFromPath ==
    /\ naming.kind = "path"
    /\ naming' = [kind |-> "path_named", cwd |-> naming.cwd, input |-> naming.input,
                  raises |-> FALSE,
                  name |-> GenerateStoreNameFromPath(naming.cwd, naming.input)]
    /\ UNCHANGED <<server_vars, auth, uploading, environ, parsing, gemini, loop>>

NextNames == NameFromUrl \/ NameFromPath
SpecNames == InitNames /\ [][NextNames]_vars

\* the path part of a URL has no character a store name keeps
ReducesToEmptyPath(url) ==
    LET u == RemoveSuffix(RStrip(url, "/"), Str_git)
        path == IF StartsWith(u, Str_gitat) THEN After(u, LastOf(u, ":"))
                ELSE UrlParse(u).path
    IN  \A i \in 1..Len(path) : LowerChar(path[i]) \notin LowerLetters \cup Digits

\* C19: for every repository URL generate_store_name_from_url returns a
\* name: it does not raise, the name is not empty, all its characters are in
\* [a-z0-9-], it neither starts nor ends with '-', and it is "unknown-repo"
\* when the URL reduces to an empty path.
C19_UrlName_Stated ==
    naming.kind = "url_named"
    => /\ ~naming.raises
       /\ naming.name # <<>>
       /\ \A i \in 1..Len(naming.name) : naming.name[i] \in LowerLetters \cup Digits \cup {"-"}
       /\ naming.name[1] # "-"
       /\ naming.name[Len(naming.name)] # "-"
       /\ ReducesToEmptyPath(naming.input) => naming.name = Str_unknown_repo

\* the final segment of the resolved path and the one before it
FinalSegment(cwd, path) ==
    LET segs == ResolvedPath(cwd, path)
    IN  IF segs = <<>> THEN <<>> ELSE segs[Len(segs)]
ParentSegment(cwd, path) ==
    LET segs == ResolvedPath(cwd, path)
    IN  IF Len(segs) >= 2 THEN segs[Len(segs) - 1] ELSE <<>>
DocsLike(cwd, path) == Lower(FinalSegment(cwd, path)) \in DocFolders

\* C20 as stated: for every local path whose final segment, lowercased, is
\* docs, doc, documentation or wiki, generate_store_name_from_path returns
\* the normalized name of the parent folder ("local-docs" when that is
\* empty) and never an empty name.
C20_ParentName_Stated ==
    (naming.kind = "path_named" /\ DocsLike(naming.cwd, naming.input))
    => /\ naming.name = NormalizeName(ParentSegment(naming.cwd, naming.input))
       /\ naming.name # <<>>

\* C20: for every local path whose final segment, lowercased, is docs, doc,
\* documentation or wiki and whose parent folder has a name,
\* generate_store_name_from_path returns the normalized name of the parent
\* folder ("local-docs" when that is empty); directly under the root it
\* returns the folder's own normalized name; the result is never empty.
C20_ParentName ==
    naming.kind = "path_named"
    => /\ naming.name # <<>>
       /\ DocsLike(naming.cwd, naming.input)
          => naming.name = IF ParentSegment(naming.cwd, naming.input) # <<>>
                           THEN NormalizeName(ParentSegment(naming.cwd, naming.input))
                           ELSE NormalizeName(FinalSegment(naming.cwd, naming.input))
C20_Witness ==
    /\ naming.kind = "path_named"
    /\ naming.input = <<"/", "p", "_", "Q", "/", "D", "o", "c", "s", "/">>
    /\ naming.name = <<"p", "-", "q">>


(***************************************************************************)
(* Authentication: the provider built when the server module is imported,  *)
(* and the bearer token of a connection.                                   *)
(***************************************************************************)
AuthTokens ==
    {NoStr, <<>>, <<"s">>, <<"S">>, <<"s", " ">>, <<" ", "s">>, <<"t">>, <<"s", "t">>,
     <<" ">>, <<"s", "s">>}
\* a provider for every token that is not None
GetAuthProviderUnlessNone(auth_token) ==
    IF auth_token = NoStr THEN "none" ELSE "verifier"
\* get_auth_provider(): None `if not config.auth_token`, else a verifier
GetAuthProvider(auth_token) ==
    IF ~IsSet(auth_token) THEN "none" ELSE "verifier"
\* validate_token(token)
ValidateToken(token, auth_token) == token = auth_token

InitAuth ==
    /\ ServerIdle
    /\ parsing = NoParsing
    /\ gemini = NoClient
    /\ loop = NoLoop
    /\ naming = NoNaming
    /\ uploading = NoUpload
    /\ environ = NoEnviron
    /\ \E t \in AuthTokens : auth = [NoAuth EXCEPT !.auth_token = t]

\* `_auth_provider = get_auth_provider()` when the module is imported
BuildAuthProvider ==
    /\ auth.provider = "unbuilt"
    /\ auth' = [auth EXCEPT !.provider = GetAuthProvider(auth.auth_token)]
    /\ UNCHANGED <<server_vars, parsing, gemini, loop, naming, uploading, environ>>

\* a connection presenting `token` (NoStr: no bearer token): without a
\* provider it is served, with one it is served when validate_token accepts
Connect(token) ==
    /\ auth.provider # "unbuilt"
    /\ auth' = [auth EXCEPT !.presented = token,
                            !.outcome =
                                IF auth.provider = "none" THEN "served"
                                ELSE IF token # NoStr /\ ValidateToken(token, auth.auth_token)
                                THEN "served" ELSE "rejected"]
    /\ UNCHANGED <<server_vars, parsing, gemini, loop, naming, uploading, environ>>

NextAuth ==
    \/ BuildAuthProvider
    \/ \E token \in AuthTokens : Connect(token)
SpecAuth == InitAuth /\ [][NextAuth]_vars

\* C21: an auth provider is constructed if and only if a non-empty auth
\* token is configured; with a provider a connection is served exactly when
\* the token it presents equals the configured token, and without one every
\* connection is served.
C21_AuthByToken ==
    /\ auth.provider # "unbuilt"
       => (auth.provider = "verifier"
           <=> (auth.auth_token # NoStr /\ auth.auth_token # <<>>))
    /\ auth.outcome # "none"
       => (auth.outcome = "served"
           <=> (auth.provider = "none" \/ auth.presented = auth.auth_token))
C21_Witness ==
    /\ auth.auth_token = <<"s">>
    /\ auth.provider = "verifier"
    /\ auth.presented = <<"S">>
    /\ auth.outcome = "rejected"


(***************************************************************************)
(* GeminiClient.upload_documents on a list of files.  A file is            *)
(* [name, exists]; the call steps from await to await.                     *)
(***************************************************************************)
MaxFiles == 3
MaxPolls == 2
FileNames == {"a.md", "b.md"}
UploadFile(name, exists) == [name |-> name, exists |-> exists]
FileLists ==
    UNION { [1..n -> {UploadFile(nm, e) : nm \in FileNames, e \in BOOLEAN}] : n \in 0..MaxFiles }
UploadEvent(what, i, total, name) == [what |-> what, i |-> i, total |-> total, name |-> name]

\* _sync_upload_file without its existence check
SyncUploadSubmitsAlways(file) == TRUE
\* _sync_upload_file goes on to upload: `if not file_path.exists(): return None`
SyncUploadSubmits(file) == file.exists

InitUpload ==
    /\ ServerIdle
    /\ parsing = NoParsing
    /\ gemini = NoClient
    /\ loop = NoLoop
    /\ naming = NoNaming
    /\ auth = NoAuth
    /\ environ = NoEnviron
    /\ \E fs \in FileLists : uploading = [NoUpload EXCEPT !.files = fs, !.phase = "loop"]

\* the head of the loop body: the next file and its progress_callback call
NextFile ==
    /\ uploading.phase = "loop"
    /\ uploading.i < Len(uploading.files)
    /\ LET i == uploading.i + 1 IN
       uploading' = [uploading EXCEPT
           !.i = i, !.phase = "executor", !.polls = 0,
           !.events = Append(@, UploadEvent("progress", i, Len(uploading.files),
                                            uploading.files[i].name))]
    /\ UNCHANGED <<server_vars, parsing, gemini, loop, naming, auth, environ>>

\* _sync_upload_file starts on the worker: a missing file is skipped (the
\* result None is not appended), any other is submitted for ingestion
SubmitOrSkip ==
    /\ uploading.phase = "executor"
    /\ LET file == uploading.files[uploading.i] IN
       IF SyncUploadSubmits(file)
       THEN uploading' = [uploading EXCEPT
                !.phase = "polling", !.in_flight = @ \cup {uploading.i},
                !.events = Append(@, UploadEvent("submit", uploading.i,
                                                 Len(uploading.files), file.name))]
       ELSE uploading' = [uploading EXCEPT !.phase = "loop"]
    /\ UNCHANGED <<server_vars, parsing, gemini, loop, naming, auth, environ>>

\* `while not operation.done`: the operation is done and the file's name is
\* appended to uploaded_files, or it is not and the worker sleeps and asks again
PollOperation(done) ==
    /\ uploading.phase = "polling"
    /\ IF done
       THEN uploading' = [uploading EXCEPT
                !.phase = "loop", !.in_flight = @ \ {uploading.i},
                !.uploaded_files = Append(@, uploading.files[uploading.i].name),
                !.events = Append(@, UploadEvent("done", uploading.i, Len(uploading.files),
                                                 uploading.files[uploading.i].name))]
       ELSE /\ uploading.polls < MaxPolls
            /\ uploading' = [uploading EXCEPT !.polls = @ + 1]
    /\ UNCHANGED <<server_vars, parsing, gemini, loop, naming, auth, environ>>

\* `return uploaded_files`
ReturnUploaded ==
    /\ uploading.phase = "loop"
    /\ uploading.i = Len(uploading.files)
    /\ uploading' = [uploading EXCEPT !.phase = "returned"]
    /\ UNCHANGED <<server_vars, parsing, gemini, loop, naming, auth, environ>>

NextUpload ==
    \/ NextFile
    \/ SubmitOrSkip
    \/ \E done \in BOOLEAN : PollOperation(done)
    \/ ReturnUploaded
SpecUpload == InitUpload /\ [][NextUpload]_vars

\* what a strictly sequential upload of files[k..] does, in order
RECURSIVE SequentialEvents(_, _)
SequentialEvents(files, k) ==
    IF k > Len(files) THEN <<>>
    ELSE <<UploadEvent("progress", k, Len(files), files[k].name)>>
         \o (IF files[k].exists
             THEN <<UploadEvent("submit", k, Len(files), files[k].name),
                    UploadEvent("done", k, Len(files), files[k].name)>>
             ELSE <<>>)
         \o SequentialEvents(files, k + 1)
\* the names of the files that exist, in input order
RECURSIVE ExistingNames(_)
ExistingNames(files) ==
    IF files = <<>> THEN <<>>
    ELSE (IF Head(files).exists THEN <<Head(files).name>> ELSE <<>>)
         \o ExistingNames(Tail(files))
IsPrefix(a, b) == Len(a) <= Len(b) /\ SubSeq(b, 1, Len(a)) = a

\* C22: upload_documents handles the files one at a time in input order: at
\* most one upload is in flight, what it has done is always a prefix of
\* "progress hook (i, total, name), then for an existing file submit and
\* done" taken file by file (so a file is submitted only after the previous
\* one's operation was done, and the hook is called once per file, missing
\* files included, before the upload starts), and the list it returns is the
\* names of the existing files in input order.
C22_SequentialUpload ==
    /\ Cardinality(uploading.in_flight) <= 1
    /\ IsPrefix(uploading.events, SequentialEvents(uploading.files, 1))
    /\ uploading.phase = "returned"
       => /\ uploading.events = SequentialEvents(uploading.files, 1)
          /\ uploading.uploaded_files = ExistingNames(uploading.files)
C22_Witness ==
    /\ uploading.phase = "returned"
    /\ uploading.files = <<UploadFile("b.md", TRUE), UploadFile("a.md", FALSE),
                           UploadFile("a.md", TRUE)>>
    /\ uploading.uploaded_files = <<"b.md", "a.md">>
    /\ Len(uploading.events) = 7


(***************************************************************************)
(* Properties of a failing clone.                                          *)
(***************************************************************************)
CloneTimeoutError == StartupCall("raise", "RuntimeError: Git clone timed out after 120 seconds")
CloneFailedError == StartupCall("raise", "RuntimeError: Git clone failed: <stderr>")

\* C23 (as stated): when the clone does not finish within the timeout, the
\* subprocess is killed and init_store_from_repo fails with the timeout
\* error; when the clone exits nonzero, it fails with the clone error that
\* carries git's stderr; in both cases neither the file collection nor
\* upload_documents happens, and the two errors differ.
C23_CloneFailures_Stated ==
    /\ StartupLogged(StartupCall("git_clone", "timeout"))
       => /\ StartupLogged(StartupCall("process_kill", "ok"))
          /\ StartupLogged(CloneTimeoutError)
          /\ StartupCount("collect_files") = 0
          /\ StartupCount("upload_documents") = 0
    /\ StartupLogged(StartupCall("git_clone", "failed"))
       => /\ StartupLogged(CloneFailedError)
          /\ StartupCount("collect_files") = 0
          /\ StartupCount("upload_documents") = 0
    /\ CloneTimeoutError # CloneFailedError


(***************************************************************************)
(* get_config and reload_config (config.py) in a process whose environment *)
(* changes between the calls.                                              *)
(***************************************************************************)
MaxConfigCalls == 4
Environments ==
    [RAG_STORE_NAME : {NoStr, CustomName},
     RAG_FORCE_REINDEX : {NoStr, <<"Y", "e", "s">>}]
TrueWords == {<<"t", "r", "u", "e">>, <<"1">>, <<"y", "e", "s">>}
\* Config(...) of the environment: os.getenv of each variable, and
\* os.getenv("RAG_FORCE_REINDEX", "").lower() in ("true", "1", "yes")
ReadConfig(env) ==
    [rag_store_name |-> env.RAG_STORE_NAME,
     rag_force_reindex |->
         Lower(IF env.RAG_FORCE_REINDEX = NoStr THEN <<>> ELSE env.RAG_FORCE_REINDEX)
         \in TrueWords]
\* a get_config that reads the environment on every call
GetConfigUncached(cache, env) == [cache |-> <<ReadConfig(env)>>, config |-> ReadConfig(env)]
\* @lru_cache(maxsize=1) get_config(): [cache, config]
GetConfig(cache, env) ==
    IF cache # <<>> THEN [cache |-> cache, config |-> cache[1]]
    ELSE [cache |-> <<ReadConfig(env)>>, config |-> ReadConfig(env)]
\* reload_config(): get_config.cache_clear(), then get_config()
ReloadConfig(cache, env) == GetConfig(<<>>, env)
ConfigCall(op, env, returned) == [op |-> op, env |-> env, config |-> returned]

InitConfig ==
    /\ ServerIdle
    /\ parsing = NoParsing
    /\ gemini = NoClient
    /\ loop = NoLoop
    /\ naming = NoNaming
    /\ auth = NoAuth
    /\ uploading = NoUpload
    /\ \E e \in Environments : environ = [NoEnviron EXCEPT !.env = e]

\* the environment changes (os.environ[...] = ..., del os.environ[...])
SetEnviron(e) ==
    /\ e # environ.env
    /\ environ' = [environ EXCEPT !.env = e]
    /\ UNCHANGED <<server_vars, parsing, gemini, loop, naming, auth, uploading>>

CallGetConfig ==
    /\ Len(environ.log) < MaxConfigCalls
    /\ LET r == GetConfig(environ.cache, environ.env) IN
       environ' = [environ EXCEPT
           !.cache = r.cache,
           !.log = Append(@, ConfigCall("get_config", environ.env, r.config))]
    /\ UNCHANGED <<server_vars, parsing, gemini, loop, naming, auth, uploading>>

CallReloadConfig ==
    /\ Len(environ.log) < MaxConfigCalls
    /\ LET r == ReloadConfig(environ.cache, environ.env) IN
       environ' = [environ EXCEPT
           !.cache = r.cache,
           !.log = Append(@, ConfigCall("reload_config", environ.env, r.config))]
    /\ UNCHANGED <<server_vars, parsing, gemini, loop, naming, auth, uploading>>

NextConfig ==
    \/ \E e \in Environments : SetEnviron(e)
    \/ CallGetConfig
    \/ CallReloadConfig
SpecConfig == InitConfig /\ [][NextConfig]_vars

\* the call whose environment the k-th call must reflect: the latest
\* reload_config up to k, the first call when there is none
RECURSIVE ReadingCall(_, _)
ReadingCall(log, k) ==
    IF k = 1 \/ log[k].op = "reload_config" THEN k ELSE ReadingCall(log, k - 1)

\* C24: every get_config and reload_config call returns the configuration of
\* the environment as it was at the latest reload_config (that call itself
\* included), or at the first call when nothing was reloaded; changes of the
\* environment in between do not show.
C24_ConfigReadOnce ==
    \A k \in 1..Len(environ.log) :
        LET r == ReadingCall(environ.log, k) IN
        /\ environ.log[k].config.rag_store_name = environ.log[r].env.RAG_STORE_NAME
        /\ environ.log[k].config.rag_force_reindex
           = (environ.log[r].env.RAG_FORCE_REINDEX = <<"Y", "e", "s">>)
C24_Witness ==
    /\ Len(environ.log) = 4
    /\ environ.log[1].op = "get_config"
    /\ environ.log[2].op = "get_config"
    /\ environ.log[2].env # environ.log[1].env
    /\ environ.log[2].config = environ.log[1].config
    /\ environ.log[3].op = "reload_config"
    /\ environ.log[3].config # environ.log[2].config
    /\ environ.log[4].op = "get_config"
    /\ environ.log[4].env # environ.log[3].env
    /\ environ.log[4].config = environ.log[3].config
    /\ environ.log[4].config.rag_force_reindex


(***************************************************************************)
(* Startups of the server, one process after the other, against one        *)
(* backend that starts without stores.  startup_calls runs on from one     *)
(* process to the next, with an entry where a new process starts.          *)
(***************************************************************************)
MaxStartups == 2
StartupConfigs ==
    Configs \cup
    { Cfg(NoStr, LocalPath, CustomName, FALSE, TRUE),
      Cfg(GoodUrl, LocalPath, CustomName, FALSE, TRUE),
      Cfg(NoStr, LocalPath, <<>>, FALSE, TRUE),
      Cfg(<<>>, LocalPath, NoStr, FALSE, TRUE) }
ProcessStart == StartupCall("lifespan", "restart")

InitRestarts ==
    /\ config \in StartupConfigs
    /\ stores = <<>>
    /\ pc = "start"
    /\ display_name = NoStr
    /\ loading = NoLoading
    /\ experience_store = FALSE
    /\ rag_client = FALSE
    /\ store_name = NoStr
    /\ store_id = 0
    /\ experiences = <<>>
    /\ startup_calls = <<>>
    /\ yields = 0
    /\ closes = 0
    /\ in_flight = <<>>
    /\ last = NoCall
    /\ parsing = NoParsing
    /\ gemini = NoClient
    /\ loop = NoLoop
    /\ naming = NoNaming
    /\ auth = NoAuth
    /\ uploading = NoUpload
    /\ environ = NoEnviron

\* the process has ended (shut down, lifespan raised or was cancelled) and a new one is
\* started with the same configuration: _state is a fresh ServerState, the
\* backend keeps its stores
Restart ==
    /\ pc \in {"stopped", "raised", "cancelled"}
    /\ Cardinality({i \in 1..Len(startup_calls) : startup_calls[i] = ProcessStart})
       < MaxStartups - 1
    /\ pc' = "start"
    /\ display_name' = NoStr
    /\ experience_store' = FALSE
    /\ rag_client' = FALSE
    /\ store_name' = NoStr
    /\ store_id' = 0
    /\ yields' = 0
    /\ closes' = 0
    /\ startup_calls' = Append(startup_calls, ProcessStart)
    /\ loading' = NoLoading
    /\ in_flight' = <<>>
    /\ last' = NoCall
    /\ UNCHANGED <<unit_vars, config, stores, experiences>>

NextRestarts ==
    \/ \E ok \in BOOLEAN : InitExperienceStore(ok)
    \/ CheckDocumentSource
    \/ \E ok \in BOOLEAN : InitRagClient(ok)
    \/ StoreNameStep
    \/ \E ok \in BOOLEAN : CheckStoreExists(ok)
    \/ LoaderStep
    \/ Shutdown
    \/ ShutdownByException
    \/ Restart
SpecRestarts == InitRestarts /\ [][NextRestarts]_vars

\* the precedence of the display name: the configured store name when it is
\* set and not empty, else the name of the URL when that is, else the name of
\* the path
NameByPrecedence(c) ==
    IF c.rag_store_name \notin {NoStr, <<>>} THEN c.rag_store_name
    ELSE IF c.rag_repo_url \notin {NoStr, <<>>}
    THEN GenerateStoreNameFromUrl(c.rag_repo_url).name
    ELSE GenerateStoreNameFromPath(ServerCwd, c.rag_local_docs_path)

\* C25: the display name of the existence check follows the precedence
\* configured store name, URL-derived name, path-derived name, and the loader
\* gives get_or_create_store the same name: no store of another name is ever
\* made, however often the server starts.
C25_OneDisplayName ==
    /\ pc \in AwaitStates => display_name = NameByPrecedence(config)
    /\ store_name # NoStr => store_name = NameByPrecedence(config)
    /\ \A i \in 1..Len(stores) : stores[i] = NameByPrecedence(config)
    /\ Len(stores) <= 1
C25_Witness ==
    /\ config = Cfg(GoodUrl, LocalPath, <<>>, FALSE, TRUE)
    /\ pc = "ready_327"
    /\ StartupLogged(StartupCall("upload_documents", "ok"))
    /\ stores = << <<"a", "-", "b">> >>
    /\ store_name = <<"a", "-", "b">>
    /\ store_id = 1

\* C26 (as stated): with force_reindex false, a store that a startup reuses
\* without uploading is one into which an earlier startup's upload ran to
\* completion.
C26_ReusedStoreWasIndexed_Stated ==
    (/\ store_id # 0
     /\ startup_calls[Len(startup_calls)] = StartupCall("check_store_exists", "found"))
    => StartupLogged(StartupCall("upload_documents", "ok"))


(***************************************************************************)
(* Properties of the Server State handles and of what the tools answer     *)
(* from them.                                                              *)
(***************************************************************************)
\* C27: store_name is set exactly when store_id is, and store_id is set only
\* when rag_client is; so get_store_info reports a store exactly when
\* ask_project_document is willing to query the backend.
C27_StoreHandlesAgree ==
    /\ (store_name # NoStr) <=> (store_id # 0)
    /\ store_id # 0 => rag_client
    /\ last.op = "get_store_info"
       => (last.resp.kind = "store_info" <=> (rag_client /\ store_id # 0))
    /\ last.op = "ask_project_document"
       => (last.resp.kind # "not_initialized" <=> store_name # NoStr)
    /\ InFlight("ask_project_document") # {} => store_name # NoStr
C27_Witness ==
    /\ last.op = "get_store_info"
    /\ last.resp.kind = "store_info"
    /\ last.resp.id = 1
    /\ store_name = <<"c", "n">>
    /\ rag_client

\* C28 (as stated): with no repository URL and no local docs path, a
\* connected Experience Store and an API key, ask_code_pattern and
\* tell_code_pattern are available.
C28_CodeToolsWithoutDocs_Stated ==
    (/\ ~HasDocumentSource(config)
     /\ config.gemini_api_key
     /\ experience_store
     /\ last.op \in {"ask_code_pattern", "tell_code_pattern"})
    => last.resp.kind # "not_available"

\* C29 (as stated): tell_code_pattern returns the success acknowledgement
\* exactly when the record it stored has success = true.
C29_AcknowledgesStoredSuccess_Stated ==
    (/\ last.op = "tell_code_pattern"
     /\ last.resp.kind \in {"learned_success", "learned_no_precedent", "learned_advice"})
    => (last.resp.kind = "learned_success"
        <=> experiences[last.resp.id].success = PBool("True"))


\* C30: with force_reindex true and a store of the derived display name in
\* the backend, startup runs the loader, whose get_or_create_store makes no
\* second store and leaves the existing one in place; when the loader
\* returns, the adopted store_id is the existing store's id.
C30_ForceReindexSameStore ==
    (/\ config.rag_force_reindex
     /\ StartupLogged(StartupCall("check_store_exists", "found"))
     /\ pc \in ReadyStates \cup {"stopped"})
    => /\ StartupCount("init_store_from_repo") + StartupCount("init_store_from_local") = 1
       /\ StartupCount("get_or_create_store") = 1
       /\ stores = <<NameByPrecedence(config)>>
       /\ IF StartupLogged(StartupCall("upload_documents", "ok"))
          THEN store_id = 1 /\ store_name = stores[1]
          ELSE store_id = 0
C30_Witness ==
    /\ config.rag_force_reindex
    /\ pc = "ready_327"
    /\ StartupLogged(StartupCall("check_store_exists", "found"))
    /\ StartupLogged(StartupCall("upload_documents", "ok"))
    /\ stores = << <<"a", "-", "b">> >>
    /\ store_id = 1

====
